---- MODULE Spec2Model ----
(***************************************************************************)
(* A model of the debiasers CDFt, QuantileDeltaMapping and ISIMIP of       *)
(* ibicus: the apply_location operation of each, its time inference and    *)
(* validation, its running-window / by-month iteration and the numerical   *)
(* pipeline run on every chunk.                                            *)
(*                                                                         *)
(* Real numbers are exact rationals <<numerator, denominator>>; floating   *)
(* point rounding is not modelled.                                         *)
(***************************************************************************)
EXTENDS Integers, Sequences, FiniteSets, TLC

(***************************************************************************)
(* Bounds of the model.                                                    *)
(***************************************************************************)
\* the short series hold 1..MaxLen samples
MaxLen == 3
\* the values of the short series are drawn from 1..MaxVal
MaxVal == 3

(***************************************************************************)
(* Exact rational arithmetic.                                              *)
(***************************************************************************)
Abs(a) == IF a < 0 THEN -a ELSE a

RECURSIVE GCD(_, _)
GCD(a, b) == IF b = 0 THEN a ELSE GCD(b, a % b)

Rat(n, d) ==
    LET g == GCD(Abs(n), Abs(d))
        s == IF d < 0 THEN -1 ELSE 1
    IN  <<(s * n) \div g, (s * d) \div g>>

R(n) == <<n, 1>>
RAdd(a, b) == Rat(a[1] * b[2] + b[1] * a[2], a[2] * b[2])
RSub(a, b) == Rat(a[1] * b[2] - b[1] * a[2], a[2] * b[2])
RMul(a, b) == Rat(a[1] * b[1], a[2] * b[2])
RDiv(a, b) == Rat(a[1] * b[2], a[2] * b[1])
RLt(a, b) == a[1] * b[2] < b[1] * a[2]
RLe(a, b) == a[1] * b[2] <= b[1] * a[2]
RMin(a, b) == IF RLe(a, b) THEN a ELSE b
RMax(a, b) == IF RLe(a, b) THEN b ELSE a
RFloor(a) == a[1] \div a[2]

RECURSIVE RSum(_)
RSum(s) == IF s = <<>> THEN R(0) ELSE RAdd(Head(s), RSum(Tail(s)))

\* np.mean of a non-empty array
Mean(s) == RDiv(RSum(s), R(Len(s)))

\* an array of integers as an array of floats
Reals(x) == [i \in 1..Len(x) |-> R(x[i])]

(***************************************************************************)
(* Arrays: masks are ascending sequences of (1-based) indices.             *)
(***************************************************************************)
SetMin(S) == CHOOSE m \in S : \A x \in S : m <= x
SetMax(S) == CHOOSE m \in S : \A x \in S : m >= x

RECURSIVE SetToSortedSeq(_)
SetToSortedSeq(S) ==
    IF S = {} THEN <<>>
    ELSE LET m == SetMin(S) IN <<m>> \o SetToSortedSeq(S \ {m})

Range(s) == {s[i] : i \in 1..Len(s)}

\* an array with its elements computed once
Array(s) == SubSeq(s, 1, Len(s))

\* x[idx] for an index array or a boolean mask
Gather(x, idx) == Array([k \in 1..Len(idx) |-> x[idx[k]]])

\* out[idx] = vals, for equally long idx and vals
Scatter(out, idx, vals) ==
    Array([i \in 1..Len(out) |->
        IF \E k \in 1..Len(idx) : idx[k] = i
        THEN vals[CHOOSE k \in 1..Len(idx) : idx[k] = i]
        ELSE out[i]])

\* np.in1d(a, b) as a mask over a
In1d(a, b) == SetToSortedSeq({k \in 1..Len(a) : a[k] \in Range(b)})

\* np.argsort of an array of rationals; equal elements keep their order
RECURSIVE InsertIdx(_, _, _)
InsertIdx(x, perm, i) ==
    IF perm = <<>> THEN <<i>>
    ELSE IF RLt(x[i], x[Head(perm)]) THEN <<i>> \o perm
    ELSE <<Head(perm)>> \o InsertIdx(x, Tail(perm), i)

RECURSIVE ArgsortUpTo(_, _)
ArgsortUpTo(x, n) ==
    IF n = 0 THEN <<>> ELSE InsertIdx(x, ArgsortUpTo(x, n - 1), n)

Argsort(x) == ArgsortUpTo(x, Len(x))
Sort(x) == Gather(x, Argsort(x))

(***************************************************************************)
(* Calendar.  A date is <<year, day of year>>; the modelled years have 365 *)
(* days.                                                                   *)
(***************************************************************************)
YearCycle == 365
MonthsInYear == 12
CumDays == <<31, 59, 90, 120, 151, 181, 212, 243, 273, 304, 334, 365>>

year(time) == [i \in 1..Len(time) |-> time[i][1]]
day_of_year(time) == [i \in 1..Len(time) |-> time[i][2]]
MonthOfDay(d) == CHOOSE m \in 1..MonthsInYear :
                    d <= CumDays[m] /\ (m = 1 \/ d > CumDays[m - 1])
month(time) == [i \in 1..Len(time) |-> MonthOfDay(time[i][2])]

\* the dates synthesized for a series without time information
InferredStartYear == 2001
create_array_of_consecutive_dates(n) ==
    [i \in 1..n |-> <<InferredStartYear + ((i - 1) \div YearCycle),
                      ((i - 1) % YearCycle) + 1>>]

infer_and_create_time_arrays_if_not_given(o, h, f) ==
    <<create_array_of_consecutive_dates(Len(o)),
      create_array_of_consecutive_dates(Len(h)),
      create_array_of_consecutive_dates(Len(f))>>

(***************************************************************************)
(* Empirical distribution: ecdf and iecdf on a non-empty sample x.         *)
(***************************************************************************)
\* plotting position of the i-th of n order statistics: np.linspace(0, 1, n)
PlotPos(i, n) == IF n = 1 THEN R(0) ELSE Rat(i - 1, n - 1)

\* np.interp(v, xs, linspace(0, 1, n)) for sorted xs
InterpCdf(xs, v) ==
    LET n == Len(xs) IN
    IF RLt(v, xs[1]) THEN R(0)
    ELSE LET j == SetMax({i \in 1..n : RLe(xs[i], v)}) IN
         IF j = n THEN PlotPos(n, n)
         ELSE RAdd(PlotPos(j, n),
                   RMul(RDiv(RSub(v, xs[j]), RSub(xs[j + 1], xs[j])),
                        RSub(PlotPos(j + 1, n), PlotPos(j, n))))

StepCdf(xs, v) == Rat(Cardinality({i \in 1..Len(xs) : RLe(xs[i], v)}), Len(xs))

ecdf(x, y, method) ==
    LET xs == Sort(x) IN
    Array([i \in 1..Len(y) |->
        IF method = "linear_interpolation" THEN InterpCdf(xs, y[i])
        ELSE StepCdf(xs, y[i])])

\* np.quantile(x, p, method="linear")
LinearQuantile(xs, p) ==
    LET n == Len(xs)
        h == RMul(p, R(n - 1))
        lo == RFloor(h)
    IN  IF lo >= n - 1 THEN xs[n]
        ELSE RAdd(xs[lo + 1], RMul(RSub(h, R(lo)), RSub(xs[lo + 2], xs[lo + 1])))

\* np.quantile(x, p, method="inverted_cdf")
InvertedCdfQuantile(xs, p) ==
    LET n == Len(xs)
        ok == {i \in 1..n : RLe(p, Rat(i, n))}
    IN  xs[SetMin(ok)]

iecdf(x, p, method) ==
    LET xs == Sort(x) IN
    Array([i \in 1..Len(p) |->
        IF method = "linear" THEN LinearQuantile(xs, p[i])
        ELSE InvertedCdfQuantile(xs, p[i])])

\* clamps probabilities into [cdf_threshold, 1 - cdf_threshold]
threshold_cdf_vals(p, cdf_threshold) ==
    Array([i \in 1..Len(p) |->
        RMax(cdf_threshold, RMin(RSub(R(1), cdf_threshold), p[i]))])

(***************************************************************************)
(* Running windows.  A window length or step is odd and positive.          *)
(***************************************************************************)
\* RunningWindowOverYears.use: the windows tile the range of years, first
\* to last, in steps; each yields <<years to debias, years in window>>.
RunningWindowOverYears_use(years, length, step) ==
    LET first == SetMin(Range(years))
        last == SetMax(Range(years))
        nr == ((last - first) \div step) + 1
    IN  [k \in 1..nr |->
            LET center == first + (k - 1) * step + (step \div 2) IN
            [years_to_debias |->
                {y \in first..last : Abs(y - center) <= step \div 2},
             years_in_window |->
                {y \in first..last : Abs(y - center) <= length \div 2}]]

get_if_in_chosen_years(years, chosen) ==
    SetToSortedSeq({i \in 1..Len(years) : years[i] \in chosen})

\* day-of-year arithmetic is circular
DayInWindow(d, center, length) ==
    LET apart == Abs(d - center) % YearCycle IN
    apart <= length \div 2 \/ YearCycle - apart <= length \div 2

\* RunningWindowOverDaysOfYear.get_indices_vals_in_window
get_indices_vals_in_window(days_of_year, window_center, length) ==
    SetToSortedSeq({i \in 1..Len(days_of_year) :
                        DayInWindow(days_of_year[i], window_center, length)})

\* RunningWindowOverDaysOfYear.use: the window centers tile the year in
\* steps; each yields <<window center, indices of the values to debias>>.
RunningWindowOverDaysOfYear_use(days_of_year, years, step) ==
    LET nr == ((YearCycle - 1) \div step) + 1 IN
    [k \in 1..nr |->
        LET center == (k - 1) * step + (step \div 2) + 1 IN
        [window_center |-> center,
         indices |-> SetToSortedSeq({i \in 1..Len(days_of_year) :
                        Abs(days_of_year[i] - center) <= step \div 2})]]

(***************************************************************************)
(* numpy array helpers shared by the debiasers.                            *)
(***************************************************************************)
\* the value of an array element that was allocated and never assigned
Uninit == <<0, 0>>
\* the result of a computation that raised
Raised == [ok |-> FALSE, val |-> <<>>]
Returned(v) == [ok |-> TRUE, val |-> v]

\* out[idx] = vals: equal sizes, or one value broadcast; a shape mismatch
\* raises
NumpyAssign(out, idx, vals) ==
    IF Len(vals) = Len(idx) THEN Returned(Scatter(out, idx, vals))
    ELSE IF Len(vals) = 1
         THEN Returned(Scatter(out, idx, [k \in 1..Len(idx) |-> vals[1]]))
         ELSE Raised

(***************************************************************************)
(* CDFt                                                                    *)
(***************************************************************************)
\* the check with the comparison of obs left out
check_time_information_of_model_series(o, h, f, t_o, t_h, t_f) ==
    Len(h) # Len(t_h) \/ Len(f) # Len(t_f)

\* CDFt._check_time_information_and_raise_error: TRUE when it raises
check_time_information_and_raise_error(o, h, f, t_o, t_h, t_f) ==
    Len(o) # Len(t_o) \/ Len(h) # Len(t_h) \/ Len(f) # Len(t_f)

\* the mapping with the innermost ecdf evaluated at obs instead of cm_future
CDFt_mapping_evaluated_at_obs(c, o, h, f) ==
    IF Len(o) = 0 \/ Len(h) = 0 \/ Len(f) = 0 THEN Raised
    ELSE Returned(
          iecdf(f,
                ecdf(h, iecdf(o, ecdf(f, o, c.ecdf_method), c.iecdf_method),
                     c.ecdf_method),
                c.iecdf_method))

\* the mapping with the additive shift applied to cm_hist alone
CDFt_mapping_shifting_cm_hist_alone(c, o, h, f) ==
    IF Len(o) = 0 \/ Len(h) = 0 \/ Len(f) = 0 THEN Raised
    ELSE
    LET shift == RSub(Mean(o), Mean(h))
        h2 == IF c.delta_shift = "additive"
              THEN Array([i \in 1..Len(h) |-> RAdd(h[i], shift)]) ELSE h
    IN  Returned(
          iecdf(f,
                ecdf(h2, iecdf(o, ecdf(f, f, c.ecdf_method), c.iecdf_method),
                     c.ecdf_method),
                c.iecdf_method))

\* the mapping with the innermost ecdf evaluated at cm_hist instead of
\* cm_future
CDFt_mapping_evaluated_at_cm_hist(c, o, h, f) ==
    IF Len(o) = 0 \/ Len(h) = 0 \/ Len(f) = 0 THEN Raised
    ELSE Returned(
          iecdf(f,
                ecdf(h, iecdf(o, ecdf(f, h, c.ecdf_method), c.iecdf_method),
                     c.ecdf_method),
                c.iecdf_method))

\* CDFt._apply_CDFt_mapping
CDFt_apply_CDFt_mapping(c, o, h, f) ==
    IF Len(o) = 0 \/ Len(h) = 0 \/ Len(f) = 0 THEN Raised
    ELSE
    LET shift == IF c.delta_shift = "additive" THEN RSub(Mean(o), Mean(h))
                 ELSE RDiv(Mean(o), Mean(h))
        h2 == IF c.delta_shift = "additive"
                 THEN Array([i \in 1..Len(h) |-> RAdd(h[i], shift)])
              ELSE IF c.delta_shift = "multiplicative"
                 THEN Array([i \in 1..Len(h) |-> RMul(h[i], shift)])
              ELSE h
        f2 == IF c.delta_shift = "additive"
                 THEN Array([i \in 1..Len(f) |-> RAdd(f[i], shift)])
              ELSE IF c.delta_shift = "multiplicative"
                 THEN Array([i \in 1..Len(f) |-> RMul(f[i], shift)])
              ELSE f
    IN  Returned(
          iecdf(f2,
                ecdf(h2,
                     iecdf(o, ecdf(f2, f2, c.ecdf_method), c.iecdf_method),
                     c.ecdf_method),
                c.iecdf_method))

\* np.random: the generator of the process.  Its state is the position in
\* its stream, which repeats after GeneratorPeriod values.
GeneratorPeriod == 4
Uniform01(j) == Rat(1 + 2 * ((3 * j) % GeneratorPeriod), 2 * GeneratorPeriod)
Advance(state, size) == (state + size) % GeneratorPeriod

\* np.random.random(size) from the state on
np_random_random(size, state) == [j \in 1..size |-> Uniform01(state + j)]

\* np.random.uniform(low, high, size) from the state on
np_random_uniform(low, high, size, state) ==
    [j \in 1..size |-> RAdd(low, RMul(Uniform01(state + j), RSub(high, low)))]

\* the strictly positive values of x
PositiveValues(x) == {x[i] : i \in {j \in 1..Len(x) : x[j][1] > 0}}

\* the least of a set of values
LeastOf(S) == CHOOSE m \in S : \A x \in S : RLe(m, x)

\* CDFt._get_threshold, for series that each have a positive value
CDFt_get_threshold(o, h, f) ==
    RMin(LeastOf(PositiveValues(o)),
         RMin(LeastOf(PositiveValues(h)), LeastOf(PositiveValues(f))))

\* CDFt._randomize_zero_values_between_zero_and_threshold:
\* np.where(x == 0, np.random.uniform(low=0, high=threshold, size=x.size), x)
CDFt_randomize_zero_values_between_zero_and_threshold(x, threshold, state) ==
    [i \in 1..Len(x) |->
        IF x[i] = R(0)
        THEN np_random_uniform(R(0), threshold, Len(x), state)[i]
        ELSE x[i]]

\* CDFt._set_values_below_threshold_to_zero: np.where(x < threshold, 0, x)
CDFt_set_values_below_threshold_to_zero(x, threshold) ==
    [i \in 1..Len(x) |-> IF RLt(x[i], threshold) THEN R(0) ELSE x[i]]

\* CDFt._apply_SSR_steps_after_adjustment on the outcome r of the mapping
CDFt_apply_SSR_steps_after_adjustment(r, threshold, state) ==
    IF ~r.ok THEN [ok |-> FALSE, val |-> <<>>, state |-> state,
                   error |-> "empty_sample"]
    ELSE [ok |-> TRUE, state |-> state, error |-> "none",
          val |-> CDFt_set_values_below_threshold_to_zero(r.val, threshold)]

\* CDFt._apply_on_month_and_window with SSR from the threshold on: the zeros
\* of obs, cm_hist and cm_future are randomized in this order
CDFt_apply_on_month_and_window_with_threshold(c, o, h, f, state, threshold) ==
    CDFt_apply_SSR_steps_after_adjustment(
        CDFt_apply_CDFt_mapping(c,
            CDFt_randomize_zero_values_between_zero_and_threshold(
                o, threshold, state),
            CDFt_randomize_zero_values_between_zero_and_threshold(
                h, threshold, state + Len(o)),
            CDFt_randomize_zero_values_between_zero_and_threshold(
                f, threshold, state + Len(o) + Len(h))),
        threshold, Advance(state, Len(o) + Len(h) + Len(f)))

\* CDFt._apply_on_month_and_window with SSR: the minimum of a series without
\* a positive value raises
CDFt_apply_on_month_and_window_with_SSR(c, o, h, f, state) ==
    IF PositiveValues(o) = {} \/ PositiveValues(h) = {} \/ PositiveValues(f) = {}
    THEN [ok |-> FALSE, val |-> <<>>, state |-> state,
          error |-> "zero_size_minimum"]
    ELSE CDFt_apply_on_month_and_window_with_threshold(c, o, h, f, state,
             CDFt_get_threshold(o, h, f))

\* CDFt._apply_on_month_and_window without SSR, on the outcome of the mapping
CDFt_apply_on_month_and_window_without_SSR(r, state) ==
    [ok |-> r.ok, val |-> r.val, state |-> state,
     error |-> IF r.ok THEN "none" ELSE "empty_sample"]

\* CDFt._apply_on_month_and_window: the outcome and the state of the
\* generator after it
CDFt_apply_on_month_and_window(c, o, h, f, state) ==
    IF c.SSR THEN CDFt_apply_on_month_and_window_with_SSR(c, o, h, f, state)
    ELSE CDFt_apply_on_month_and_window_without_SSR(
             CDFt_apply_CDFt_mapping(c, o, h, f), state)

MonthMask(time, i_month) ==
    SetToSortedSeq({i \in 1..Len(time) : MonthOfDay(time[i][2]) = i_month})

\* a loop over the months that skips the months without a sample in one of
\* the three series
RECURSIVE CDFt_month_loop_skipping_empty_months(_, _, _, _, _, _, _, _, _, _)
CDFt_month_loop_skipping_empty_months(c, o, h, f, t_o, t_h, t_f, i_month, acc, state) ==
    IF i_month > MonthsInYear
    THEN [ok |-> TRUE, val |-> acc, state |-> state, error |-> "none"]
    ELSE IF \/ MonthMask(t_o, i_month) = <<>>
            \/ MonthMask(t_h, i_month) = <<>>
            \/ MonthMask(t_f, i_month) = <<>>
    THEN CDFt_month_loop_skipping_empty_months(c, o, h, f, t_o, t_h, t_f,
                                               i_month + 1, acc, state)
    ELSE LET r == CDFt_apply_on_month_and_window(c,
                     Gather(o, MonthMask(t_o, i_month)),
                     Gather(h, MonthMask(t_h, i_month)),
                     Gather(f, MonthMask(t_f, i_month)), state)
             a == IF r.ok THEN NumpyAssign(acc, MonthMask(t_f, i_month), r.val)
                  ELSE Raised
         IN  IF ~a.ok
             THEN [ok |-> FALSE, val |-> <<>>, state |-> r.state,
                   error |-> IF r.ok THEN "shape_mismatch" ELSE r.error]
             ELSE CDFt_month_loop_skipping_empty_months(c, o, h, f, t_o, t_h,
                      t_f, i_month + 1, a.val, r.state)

\* the loop over the months of CDFt._apply_on_window, from month i_month on
RECURSIVE CDFt_month_loop(_, _, _, _, _, _, _, _, _, _)
CDFt_month_loop(c, o, h, f, t_o, t_h, t_f, i_month, acc, state) ==
    IF i_month > MonthsInYear
    THEN [ok |-> TRUE, val |-> acc, state |-> state, error |-> "none"]
    ELSE LET r == CDFt_apply_on_month_and_window(c,
                     Gather(o, MonthMask(t_o, i_month)),
                     Gather(h, MonthMask(t_h, i_month)),
                     Gather(f, MonthMask(t_f, i_month)), state)
             a == IF r.ok THEN NumpyAssign(acc, MonthMask(t_f, i_month), r.val)
                  ELSE Raised
         IN  IF ~a.ok
             THEN [ok |-> FALSE, val |-> <<>>, state |-> r.state,
                   error |-> IF r.ok THEN "shape_mismatch" ELSE r.error]
             ELSE CDFt_month_loop(c, o, h, f, t_o, t_h, t_f, i_month + 1, a.val,
                                  r.state)

\* CDFt._apply_on_window
CDFt_apply_on_window(c, o, h, f, t_o, t_h, t_f, state) ==
    IF c.apply_by_month
    THEN CDFt_month_loop(c, o, h, f, t_o, t_h, t_f, 1,
                         [i \in 1..Len(f) |-> Uninit], state)
    ELSE CDFt_apply_on_month_and_window(c, o, h, f, state)

(***************************************************************************)
(* QuantileDeltaMapping                                                    *)
(***************************************************************************)
\* the distribution capability: a location-scale family fitted by its
\* sample range, with quantile function loc + p * scale
distribution_fit(x) ==
    IF Len(x) = 0 THEN Raised
    ELSE LET xs == Sort(x) IN Returned(<<xs[1], RSub(xs[Len(xs)], xs[1])>>)

distribution_ppf(p, fit) ==
    Array([i \in 1..Len(p) |-> RAdd(fit[1], RMul(p[i], fit[2]))])

\* the debiasing steps with the two quantiles exchanged
QDM_debiasing_steps_with_fits_exchanged(c, f, fit_obs, fit_cm_hist) ==
    IF Len(f) = 0 THEN Raised
    ELSE
    LET tau_t == threshold_cdf_vals(ecdf(f, f, c.ecdf_method), c.cdf_threshold)
        q_obs == distribution_ppf(tau_t, fit_obs)
        q_cm_hist == distribution_ppf(tau_t, fit_cm_hist)
        bias_corrected_vals ==
            Array([i \in 1..Len(f) |->
                IF c.trend_preservation = "absolute"
                THEN RSub(RAdd(f[i], q_cm_hist[i]), q_obs[i])
                ELSE RDiv(RMul(f[i], q_cm_hist[i]), q_obs[i])])
    IN  Returned([i \in 1..Len(f) |->
            IF c.censor_values_to_zero
               /\ RLt(bias_corrected_vals[i], c.censoring_threshold)
            THEN R(0) ELSE bias_corrected_vals[i]])

\* QuantileDeltaMapping._apply_debiasing_steps
QDM_apply_debiasing_steps(c, f, fit_obs, fit_cm_hist) ==
    IF Len(f) = 0 THEN Raised
    ELSE IF c.trend_preservation \notin {"absolute", "relative"} THEN Raised
    ELSE
    LET tau_t == threshold_cdf_vals(ecdf(f, f, c.ecdf_method), c.cdf_threshold)
        q_obs == distribution_ppf(tau_t, fit_obs)
        q_cm_hist == distribution_ppf(tau_t, fit_cm_hist)
        bias_corrected_vals ==
            Array([i \in 1..Len(f) |->
                IF c.trend_preservation = "absolute"
                THEN RSub(RAdd(f[i], q_obs[i]), q_cm_hist[i])
                ELSE RDiv(RMul(f[i], q_obs[i]), q_cm_hist[i])])
    IN  Returned([i \in 1..Len(f) |->
            IF c.censor_values_to_zero
               /\ RLt(bias_corrected_vals[i], c.censoring_threshold)
            THEN R(0) ELSE bias_corrected_vals[i]])

\* the window over the years with the years to debias as its only context
QDM_years_window_without_context(years_cm_future, w) ==
    [mask_years_in_window |->
        get_if_in_chosen_years(years_cm_future, w.years_to_debias),
     mask_years_to_debias |->
        get_if_in_chosen_years(years_cm_future, w.years_to_debias),
     mask_years_in_window_to_debias |->
        get_if_in_chosen_years(
            Gather(years_cm_future,
                   get_if_in_chosen_years(years_cm_future, w.years_to_debias)),
            w.years_to_debias)]

\* one window of the loop over the years of cm_future in
\* QuantileDeltaMapping._apply_on_within_year_window
QDM_years_window(years_cm_future, w) ==
    [mask_years_in_window |->
        get_if_in_chosen_years(years_cm_future, w.years_in_window),
     mask_years_to_debias |->
        get_if_in_chosen_years(years_cm_future, w.years_to_debias),
     mask_years_in_window_to_debias |->
        get_if_in_chosen_years(
            Gather(years_cm_future,
                   get_if_in_chosen_years(years_cm_future, w.years_in_window)),
            w.years_to_debias)]

\* the loop over the years of cm_future; acc.wr counts the assignments to
\* each element of the window's own output array
RECURSIVE QDM_years_loop(_, _, _, _, _, _, _)
QDM_years_loop(c, f, years_cm_future, fit_obs, fit_cm_hist, ws, acc) ==
    IF ws = <<>> THEN acc
    ELSE LET m == QDM_years_window(years_cm_future, Head(ws))
             r == QDM_apply_debiasing_steps(c, Gather(f, m.mask_years_in_window),
                                            fit_obs, fit_cm_hist)
             a == IF r.ok
                  THEN NumpyAssign(acc.val, m.mask_years_to_debias,
                                   Gather(r.val, m.mask_years_in_window_to_debias))
                  ELSE Raised
         IN  IF ~a.ok THEN [ok |-> FALSE, val |-> <<>>, wr |-> <<>>]
             ELSE QDM_years_loop(c, f, years_cm_future, fit_obs, fit_cm_hist,
                    Tail(ws),
                    [ok |-> TRUE, val |-> a.val,
                     wr |-> [i \in 1..Len(f) |->
                               IF i \in Range(m.mask_years_to_debias)
                               THEN acc.wr[i] + 1 ELSE acc.wr[i]]])

\* QuantileDeltaMapping._apply_on_within_year_window
QDM_apply_on_within_year_window(c, o, h, f, years_cm_future) ==
    LET fit_obs == distribution_fit(o)
        fit_cm_hist == distribution_fit(h)
    IN  IF ~fit_obs.ok \/ ~fit_cm_hist.ok \/ Len(f) = 0
        THEN [ok |-> FALSE, val |-> <<>>, wr |-> <<>>]
        ELSE IF c.running_window_mode_over_years_of_cm_future
        THEN QDM_years_loop(c, f, years_cm_future, fit_obs.val, fit_cm_hist.val,
                RunningWindowOverYears_use(years_cm_future,
                    c.running_window_over_years_of_cm_future_length,
                    c.running_window_over_years_of_cm_future_step_length),
                [ok |-> TRUE, val |-> [i \in 1..Len(f) |-> Uninit],
                 wr |-> [i \in 1..Len(f) |-> 0]])
        ELSE LET r == QDM_apply_debiasing_steps(c, f, fit_obs.val, fit_cm_hist.val)
             IN  [ok |-> r.ok, val |-> r.val, wr |-> [i \in 1..Len(f) |-> 1]]

(***************************************************************************)
(* ISIMIP.  Bounds and thresholds are extended reals: inf = -1 or 1 for    *)
(* -infinity and +infinity, 0 for the finite value v.                      *)
(*                                                                         *)
(* ISIMIPConfig is the configuration of an unbounded variable (both bounds  *)
(* and thresholds infinite) with impute_missing_values, detrending and     *)
(* scale_by_annual_cycle_of_upper_bounds off, nonparametric_qm on and the  *)
(* additive trend preservation method; the specifications of the single    *)
(* steps vary these fields.  event_likelihood_adjustment is off.           *)
(***************************************************************************)
NegInf == [inf |-> -1, v |-> <<0, 1>>]
PosInf == [inf |-> 1, v |-> <<0, 1>>]
Fin(r) == [inf |-> 0, v |-> r]

ISIMIP_has_lower_threshold(c) == c.lower_threshold.inf > -1
ISIMIP_has_lower_bound(c) == c.lower_bound.inf > -1
ISIMIP_has_upper_threshold(c) == c.upper_threshold.inf < 1
ISIMIP_has_upper_bound(c) == c.upper_bound.inf < 1
ISIMIP_has_bound(c) == ISIMIP_has_upper_bound(c) \/ ISIMIP_has_lower_bound(c)
ISIMIP_has_threshold(c) ==
    ISIMIP_has_upper_threshold(c) \/ ISIMIP_has_lower_threshold(c)

\* x <= self.lower_threshold, x >= self.upper_threshold for one value
BeyondLowerThreshold(c, v) ==
    c.lower_threshold.inf = 1
    \/ (c.lower_threshold.inf = 0 /\ RLe(v, c.lower_threshold.v))
BeyondUpperThreshold(c, v) ==
    c.upper_threshold.inf = -1
    \/ (c.upper_threshold.inf = 0 /\ RLe(c.upper_threshold.v, v))

ISIMIP_get_mask_for_values_beyond_lower_threshold(c, x) ==
    SetToSortedSeq({i \in 1..Len(x) : BeyondLowerThreshold(c, x[i])})
ISIMIP_get_mask_for_values_beyond_upper_threshold(c, x) ==
    SetToSortedSeq({i \in 1..Len(x) : BeyondUpperThreshold(c, x[i])})
\* the mask of the values beyond the threshold of one side
ISIMIP_get_mask_for_values_beyond_threshold(c, side, x) ==
    IF side = "lower"
    THEN ISIMIP_get_mask_for_values_beyond_lower_threshold(c, x)
    ELSE ISIMIP_get_mask_for_values_beyond_upper_threshold(c, x)
ISIMIP_get_mask_for_values_between_thresholds(c, x) ==
    SetToSortedSeq({i \in 1..Len(x) :
        ~BeyondLowerThreshold(c, x[i]) /\ ~BeyondUpperThreshold(c, x[i])})
ISIMIP_get_values_between_thresholds(c, x) ==
    Gather(x, ISIMIP_get_mask_for_values_between_thresholds(c, x))

\* the comparison with the ends of the range taken as outside
OutsideOrOnEndOfRange(c, x) ==
    \E i \in 1..Len(x) :
        RLe(x[i], c.reasonable_physical_range.lo)
        \/ RLe(c.reasonable_physical_range.hi, x[i])

\* ISIMIP._check_reasonable_physical_range: TRUE when it raises
OutsideRange(c, x) ==
    \E i \in 1..Len(x) :
        RLt(x[i], c.reasonable_physical_range.lo)
        \/ RLt(c.reasonable_physical_range.hi, x[i])
ISIMIP_check_reasonable_physical_range(c, o, h, f) ==
    c.reasonable_physical_range.given
    /\ (OutsideRange(c, o) \/ OutsideRange(c, h) \/ OutsideRange(c, f))

\* ISIMIP.step1 and ISIMIP.step8 without scaling by the annual cycle
ISIMIP_step1(c, o, h, f) == [obs_hist |-> o, cm_hist |-> h, cm_future |-> f]
ISIMIP_step8(c, f) == f

\* nan, and the mask of the values that are nan or infinite
NaN == <<0, 0>>
ISIMIP_step2_get_mask_for_values_to_impute(x) ==
    SetToSortedSeq({i \in 1..Len(x) : x[i][2] = 0})

\* the ranks of the values of x: np.argsort(np.argsort(x))
Ranks(x) == Argsort([i \in 1..Len(x) |-> R(Argsort(x)[i])])

\* scipy.interpolate.interp1d(x, y, fill_value="extrapolate")(q) for
\* ascending x of two or more values: linear between the neighbours of q,
\* and along the first or the last segment beyond them
interp1d(x, y, q) ==
    LET n == Len(x)
        k == IF RLe(q, x[1]) THEN 1
             ELSE IF RLe(x[n], q) THEN n - 1
             ELSE SetMax({i \in 1..(n - 1) : RLe(x[i], q)})
    IN  RAdd(y[k], RMul(RSub(q, x[k]),
                        RDiv(RSub(y[k + 1], y[k]), RSub(x[k + 1], x[k]))))

\* sort_array_like_another_one(x, y): the values of x in the order of the
\* ranks of y
sort_array_like_another_one(x, y) == Gather(Sort(x), Ranks(y))

\* x[mask_values_to_impute] = ...: the sampled values in the order of the
\* interpolated ranks
ISIMIP_step2_assign_sampled(x, state, mask_values_to_impute, mask_valid_values, valid_values, sampled_values) ==
    [ok |-> TRUE, state |-> Advance(state, Len(mask_values_to_impute)),
     x |-> Scatter(x, mask_values_to_impute,
              Gather(Sort(sampled_values),
                     Ranks([k \in 1..Len(mask_values_to_impute) |->
                        interp1d(Reals(mask_valid_values),
                                 Reals(Ranks(valid_values)),
                                 R(mask_values_to_impute[k]))])))]

\* ISIMIP._step2_impute_values once the masks are known
ISIMIP_step2_impute_values_of_masks(c, x, state, mask_values_to_impute, mask_valid_values, valid_values) ==
    IF Len(valid_values) = 0 THEN [ok |-> FALSE, x |-> x, state |-> state]
    ELSE IF Len(valid_values) = 1
    THEN [ok |-> TRUE, state |-> state,
          x |-> Scatter(x, mask_values_to_impute,
                        [k \in 1..Len(mask_values_to_impute) |-> valid_values[1]])]
    ELSE ISIMIP_step2_assign_sampled(x, state, mask_values_to_impute,
             mask_valid_values, valid_values,
             iecdf(valid_values,
                   np_random_random(Len(mask_values_to_impute), state),
                   c.iecdf_method))

\* the values that are neither nan nor infinite
ISIMIP_step2_valid_values(c, x, state, mask_values_to_impute, mask_valid_values) ==
    ISIMIP_step2_impute_values_of_masks(c, x, state, mask_values_to_impute,
        mask_valid_values, Gather(x, mask_valid_values))

\* the mask of the valid values: np.logical_not(mask_values_to_impute)
ISIMIP_step2_logical_not(c, x, state, mask_values_to_impute) ==
    ISIMIP_step2_valid_values(c, x, state, mask_values_to_impute,
        SetToSortedSeq((1..Len(x)) \ Range(mask_values_to_impute)))

\* an imputation that puts 0 in the place of every invalid value
ISIMIP_step2_impute_zeros(c, x, state) ==
    IF \A i \in 1..Len(x) : x[i][2] = 0 THEN [ok |-> FALSE, x |-> x, state |-> state]
    ELSE [ok |-> TRUE, state |-> state,
          x |-> [i \in 1..Len(x) |-> IF x[i][2] = 0 THEN R(0) ELSE x[i]]]

\* ISIMIP._step2_impute_values: x after the assignment in place, and the
\* state of the generator
ISIMIP_step2_impute_values(c, x, state) ==
    ISIMIP_step2_logical_not(c, x, state,
        ISIMIP_step2_get_mask_for_values_to_impute(x))

\* the return of ISIMIP.step2 with imputation
ISIMIP_step2_imputed(o, h, f, state, ro, rh, rf) ==
    IF ~ro.ok \/ ~rh.ok \/ ~rf.ok
    THEN [ok |-> FALSE, obs_hist |-> o, cm_hist |-> h, cm_future |-> f,
          state |-> state]
    ELSE [ok |-> TRUE, obs_hist |-> ro.x, cm_hist |-> rh.x,
          cm_future |-> rf.x, state |-> rf.state]

\* the imputation of cm_future follows that of cm_hist
ISIMIP_step2_after_cm_hist(c, o, h, f, state, ro, rh) ==
    ISIMIP_step2_imputed(o, h, f, state, ro, rh,
        ISIMIP_step2_impute_values(c, f, rh.state))

\* the imputation of cm_hist follows that of obs_hist
ISIMIP_step2_after_obs_hist(c, o, h, f, state, ro) ==
    ISIMIP_step2_after_cm_hist(c, o, h, f, state, ro,
        ISIMIP_step2_impute_values(c, h, ro.state))

\* ISIMIP.step2
ISIMIP_step2(c, o, h, f, state) ==
    IF c.impute_missing_values
    THEN ISIMIP_step2_after_obs_hist(c, o, h, f, state,
             ISIMIP_step2_impute_values(c, o, state))
    ELSE [ok |-> TRUE, obs_hist |-> o, cm_hist |-> h, cm_future |-> f,
          state |-> state]

\* get_years_and_yearly_means(x, years): the years that occur, ascending,
\* and the mean of the values of each
get_years_and_yearly_means(x, years) ==
    LET unique_years == SetToSortedSeq(Range(years))
    IN  [unique_years |-> unique_years,
         annual_means |-> [k \in 1..Len(unique_years) |->
            Mean(Gather(x, SetToSortedSeq(
                {i \in 1..Len(x) : years[i] = unique_years[k]})))]]

\* the square of the two-sided 5 % point of Student's t distribution
TCritSquared(df) ==
    CASE df = 1 -> Rat(16145, 100)
      [] df = 2 -> Rat(18513, 1000)
      [] df = 3 -> Rat(10128, 1000)
      [] df = 4 -> Rat(7709, 1000)

\* scipy.stats.linregress(x, y): the slope of the least squares line and
\* whether the p-value of the test for a zero slope is below 0.05; it raises
\* when all x are identical
linregress(x, y) ==
    LET n == Len(x)
        xm == Mean(x)
        ym == Mean(y)
        ssxm == RSum([i \in 1..n |-> RMul(RSub(x[i], xm), RSub(x[i], xm))])
        ssym == RSum([i \in 1..n |-> RMul(RSub(y[i], ym), RSub(y[i], ym))])
        ssxym == RSum([i \in 1..n |-> RMul(RSub(x[i], xm), RSub(y[i], ym))])
    IN  IF n < 2 \/ ssxm[1] = 0 THEN [ok |-> FALSE]
        ELSE [ok |-> TRUE,
              slope |-> RDiv(ssxym, ssxm),
              pvalue_below_005 |->
                IF n = 2 THEN y[1] # y[2]
                ELSE RLt(RMul(TCritSquared(n - 2),
                              RSub(RMul(ssxm, ssym), RMul(ssxym, ssxym))),
                         RMul(R(n - 2), RMul(ssxym, ssxym)))]

\* the trend of ISIMIP._step3_remove_trend: the regression line over the
\* years, or zeros
ISIMIP_step3_trend(c, regression, unique_years, years) ==
    [i \in 1..Len(years) |->
        IF regression.pvalue_below_005 /\ c.trend_removal_with_significance_test
        THEN RMul(regression.slope, RSub(R(years[i]), Mean(Reals(unique_years))))
        ELSE R(0)]

\* x = x - trend
ISIMIP_step3_subtract_trend(x, regression, trend) ==
    IF ~regression.ok THEN [ok |-> FALSE]
    ELSE [ok |-> TRUE, x |-> [i \in 1..Len(x) |-> RSub(x[i], trend[i])],
          trend |-> trend]

\* ISIMIP._step3_remove_trend from the regression on
ISIMIP_step3_remove_trend_of_regression(c, x, years, unique_years, regression) ==
    ISIMIP_step3_subtract_trend(x, regression,
        ISIMIP_step3_trend(c, regression, unique_years, years))

\* ISIMIP._step3_remove_trend from the annual means on
ISIMIP_step3_remove_trend_of_means(c, x, years, g) ==
    ISIMIP_step3_remove_trend_of_regression(c, x, years, g.unique_years,
        linregress(Reals(g.unique_years), g.annual_means))

\* ISIMIP._step3_remove_trend
ISIMIP_step3_remove_trend(c, x, years) ==
    ISIMIP_step3_remove_trend_of_means(c, x, years,
        get_years_and_yearly_means(x, years))

\* the return of a step 3 that hands on the trend of cm_hist
ISIMIP_step3_detrended_with_trend_of_cm_hist(o, h, f, ro, rh, rf) ==
    IF ~ro.ok \/ ~rh.ok \/ ~rf.ok
    THEN [ok |-> FALSE, obs_hist |-> o, cm_hist |-> h, cm_future |-> f,
          trend_cm_future |-> <<>>]
    ELSE [ok |-> TRUE, obs_hist |-> ro.x, cm_hist |-> rh.x,
          cm_future |-> rf.x,
          trend_cm_future |-> [i \in 1..Len(f) |-> rh.trend[((i - 1) % Len(h)) + 1]]]

\* the return of ISIMIP.step3 with detrending
ISIMIP_step3_detrended(o, h, f, ro, rh, rf) ==
    IF ~ro.ok \/ ~rh.ok \/ ~rf.ok
    THEN [ok |-> FALSE, obs_hist |-> o, cm_hist |-> h, cm_future |-> f,
          trend_cm_future |-> <<>>]
    ELSE [ok |-> TRUE, obs_hist |-> ro.x, cm_hist |-> rh.x,
          cm_future |-> rf.x, trend_cm_future |-> rf.trend]

\* ISIMIP.step3
ISIMIP_step3(c, o, h, f, years_obs_hist, years_cm_hist, years_cm_future) ==
    IF c.detrending
    THEN ISIMIP_step3_detrended(o, h, f,
             ISIMIP_step3_remove_trend(c, o, years_obs_hist),
             ISIMIP_step3_remove_trend(c, h, years_cm_hist),
             ISIMIP_step3_remove_trend(c, f, years_cm_future))
    ELSE [ok |-> TRUE, obs_hist |-> o, cm_hist |-> h, cm_future |-> f,
          trend_cm_future |-> [i \in 1..Len(f) |-> R(0)]]

\* an assignment of the sorted draws in the order of the positions
ISIMIP_step4_assign_sorted(vals, state, mask, low, high) ==
    IF low.inf # 0 \/ high.inf # 0
    THEN [ok |-> FALSE, vals |-> vals, state |-> state]
    ELSE [ok |-> TRUE,
          vals |-> Scatter(vals, mask,
                     Sort(np_random_uniform(low.v, high.v, Len(mask), state))),
          state |-> Advance(state, Len(mask))]

\* vals[mask] = sort_array_like_another_one(..., vals[mask]);
\* np.random.uniform raises OverflowError when high - low is not finite
ISIMIP_step4_assign_randomized(vals, state, mask, low, high) ==
    IF low.inf # 0 \/ high.inf # 0
    THEN [ok |-> FALSE, vals |-> vals, state |-> state]
    ELSE [ok |-> TRUE,
          vals |-> Scatter(vals, mask,
                     sort_array_like_another_one(
                         Sort(np_random_uniform(low.v, high.v, Len(mask), state)),
                         Gather(vals, mask))),
          state |-> Advance(state, Len(mask))]

\* ISIMIP._step4_randomize_values_between_lower_threshold_and_bound and
\* ..._upper_threshold_and_bound: vals after the assignment in place, and
\* the state of the generator
ISIMIP_step4_randomize_values_between_threshold_and_bound(c, side, vals, state) ==
    ISIMIP_step4_assign_randomized(vals, state,
        ISIMIP_get_mask_for_values_beyond_threshold(c, side, vals),
        IF side = "lower" THEN c.lower_bound ELSE c.upper_threshold,
        IF side = "lower" THEN c.lower_threshold ELSE c.upper_bound)

\* the arrays after the randomization of one side; an error leaves the
\* arrays assigned before it as they are
ISIMIP_step4_randomized(s, ro, rh, rf) ==
    [ok |-> ro.ok /\ rh.ok /\ rf.ok,
     obs_hist |-> ro.vals,
     cm_hist |-> IF ro.ok THEN rh.vals ELSE s.cm_hist,
     cm_future |-> IF ro.ok /\ rh.ok THEN rf.vals ELSE s.cm_future,
     state |-> IF ~ro.ok THEN ro.state ELSE IF ~rh.ok THEN rh.state ELSE rf.state]

\* the randomization of cm_future follows that of cm_hist
ISIMIP_step4_after_cm_hist(c, side, s, ro, rh) ==
    ISIMIP_step4_randomized(s, ro, rh,
        ISIMIP_step4_randomize_values_between_threshold_and_bound(
            c, side, s.cm_future, rh.state))

\* the randomization of cm_hist follows that of obs_hist
ISIMIP_step4_after_obs_hist(c, side, s, ro) ==
    ISIMIP_step4_after_cm_hist(c, side, s, ro,
        ISIMIP_step4_randomize_values_between_threshold_and_bound(
            c, side, s.cm_hist, ro.state))

\* the randomization of obs_hist, cm_hist and cm_future on one side
ISIMIP_step4_randomize_side(c, side, s) ==
    ISIMIP_step4_after_obs_hist(c, side, s,
        ISIMIP_step4_randomize_values_between_threshold_and_bound(
            c, side, s.obs_hist, s.state))

\* the upper side of ISIMIP.step4
ISIMIP_step4_upper(c, s) ==
    IF s.ok /\ ISIMIP_has_upper_bound(c) /\ ISIMIP_has_upper_threshold(c)
    THEN ISIMIP_step4_randomize_side(c, "upper", s) ELSE s

\* the lower side of ISIMIP.step4
ISIMIP_step4_lower(c, s) ==
    IF ISIMIP_has_lower_bound(c) /\ ISIMIP_has_lower_threshold(c)
    THEN ISIMIP_step4_randomize_side(c, "lower", s) ELSE s

\* ISIMIP.step4
ISIMIP_step4(c, o, h, f, state) ==
    ISIMIP_step4_upper(c, ISIMIP_step4_lower(c,
        [ok |-> TRUE, obs_hist |-> o, cm_hist |-> h, cm_future |-> f,
         state |-> state]))

\* floating-point values that may be infinite (<<1, 0>>, <<-1, 0>>) or NaN
Ext(bound) == IF bound.inf = 0 THEN bound.v ELSE <<bound.inf, 0>>
IsFinite(x) == x[2] # 0

\* x / y for finite x and y: a division by zero gives an infinity, 0 / 0 NaN
FloatDiv(x, y) ==
    IF y[1] # 0 THEN RDiv(x, y)
    ELSE IF x[1] = 0 THEN NaN
    ELSE IF x[1] > 0 THEN <<1, 0>> ELSE <<-1, 0>>

\* x - y and x + y for a finite x
FloatSub(x, y) == IF IsFinite(y) THEN RSub(x, y) ELSE <<-y[1], 0>>
FloatAdd(x, y) == IF IsFinite(y) THEN RAdd(x, y) ELSE y

\* x <= y for values that are not NaN
FloatLe(x, y) ==
    IF IsFinite(x) /\ IsFinite(y) THEN RLe(x, y)
    ELSE IF IsFinite(x) THEN y[1] = 1
    ELSE IF IsFinite(y) THEN x[1] = -1
    ELSE x[1] <= y[1]

\* np.minimum and np.maximum, which hand a NaN on
np_minimum(x, y) ==
    IF x = NaN \/ y = NaN THEN NaN ELSE IF FloatLe(x, y) THEN x ELSE y
np_maximum(x, y) ==
    IF x = NaN \/ y = NaN THEN NaN ELSE IF FloatLe(x, y) THEN y ELSE x

\* np.isclose(x, y) for the values of the model, which are equal or differ by
\* far more than the tolerance
np_isclose(x, y) == x = y

\* b - (b - q_obs_hist) * (b - q_cm_future) / (b - q_cm_hist)
ISIMIP_step5_bounded_negative_bias(b, q_obs_hist, q_cm_hist, q_cm_future) ==
    IF ~IsFinite(b) THEN NaN
    ELSE FloatSub(b, FloatDiv(RMul(RSub(b, q_obs_hist), RSub(b, q_cm_future)),
                              RSub(b, q_cm_hist)))

\* a + (q_obs_hist - a) * (q_cm_future - a) / (q_cm_hist - a)
ISIMIP_step5_bounded_positive_bias(a, q_obs_hist, q_cm_hist, q_cm_future) ==
    IF ~IsFinite(a) THEN NaN
    ELSE FloatAdd(a, FloatDiv(RMul(RSub(q_obs_hist, a), RSub(q_cm_future, a)),
                              RSub(q_cm_hist, a)))

\* the element of return_vals after the four assignments by mask, the later
\* assignment overwriting the earlier one
ISIMIP_step5_bounded_return_val(a, b, q_obs_hist, q_cm_hist, q_cm_future) ==
    IF \/ RLt(q_cm_hist, q_obs_hist) /\ RLt(q_cm_future, q_cm_hist)
       \/ RLt(q_obs_hist, q_cm_hist) /\ RLt(q_cm_hist, q_cm_future)
    THEN RSub(RAdd(q_obs_hist, q_cm_future), q_cm_hist)
    ELSE IF RLt(q_obs_hist, q_cm_hist)
    THEN ISIMIP_step5_bounded_positive_bias(a, q_obs_hist, q_cm_hist, q_cm_future)
    ELSE IF np_isclose(q_cm_hist, q_obs_hist) THEN q_cm_future
    ELSE IF RLt(q_cm_hist, q_obs_hist)
    THEN ISIMIP_step5_bounded_negative_bias(b, q_obs_hist, q_cm_hist, q_cm_future)
    ELSE Uninit

\* trend_preservation_method == "bounded"
ISIMIP_step5_transfer_trend_bounded(a, b, q_obs_hist, q_cm_hist, q_cm_future) ==
    [i \in 1..Len(q_obs_hist) |->
        np_maximum(a, np_minimum(
            ISIMIP_step5_bounded_return_val(a, b, q_obs_hist[i], q_cm_hist[i],
                                            q_cm_future[i]), b))]

\* trend_preservation_method == "additive"
ISIMIP_step5_transfer_trend_additive(q_obs_hist, q_cm_hist, q_cm_future) ==
    [i \in 1..Len(q_obs_hist) |->
        RAdd(q_obs_hist[i], RSub(q_cm_future[i], q_cm_hist[i]))]

\* ISIMIP._step5_transfer_trend from the quantiles on
ISIMIP_step5_transfer_trend_of_quantiles(c, q_obs_hist, q_cm_hist, q_cm_future) ==
    IF c.trend_preservation_method = "bounded"
    THEN ISIMIP_step5_transfer_trend_bounded(Ext(c.lower_bound),
             Ext(c.upper_bound), q_obs_hist, q_cm_hist, q_cm_future)
    ELSE ISIMIP_step5_transfer_trend_additive(q_obs_hist, q_cm_hist, q_cm_future)

\* ISIMIP._step5_transfer_trend from p on
ISIMIP_step5_transfer_trend_of_p(c, o, h, f, p) ==
    ISIMIP_step5_transfer_trend_of_quantiles(c, o,
        iecdf(h, p, c.iecdf_method), iecdf(f, p, c.iecdf_method))

\* ISIMIP._step5_transfer_trend for the methods "additive" and "bounded"
ISIMIP_step5_transfer_trend(c, o, h, f) ==
    IF Len(o) = 0 \/ Len(h) = 0 \/ Len(f) = 0 THEN Raised
    ELSE Returned(Array(ISIMIP_step5_transfer_trend_of_p(c, o, h, f,
                            ecdf(o, o, c.ecdf_method))))

\* a step 5 that transfers the trend to every value
ISIMIP_step5_for_all_values(c, o, h, f) ==
    ISIMIP_step5_transfer_trend(c, o, h, f)

\* ISIMIP.step5
ISIMIP_step5(c, o, h, f) ==
    IF c.trend_transfer_only_for_values_within_threshold
    THEN LET mask == ISIMIP_get_mask_for_values_between_thresholds(c, o)
             values_h == ISIMIP_get_values_between_thresholds(c, h)
             values_f == ISIMIP_get_values_between_thresholds(c, f)
         IN  IF Len(mask) > 0 /\ Len(values_h) > 0 /\ Len(values_f) > 0
             THEN LET r == ISIMIP_step5_transfer_trend(c, Gather(o, mask),
                                                       values_h, values_f)
                  IN  IF r.ok THEN NumpyAssign(o, mask, r.val) ELSE Raised
             ELSE Returned(o)
    ELSE ISIMIP_step5_transfer_trend(c, o, h, f)

\* quantile_map_non_parametically(x, y, vals)
quantile_map_non_parametically(c, x, y, vals) ==
    IF Len(x) = 0 \/ Len(y) = 0 THEN Raised
    ELSE Returned(iecdf(y, ecdf(x, vals, c.ecdf_method), c.iecdf_method))

\* quantile_map_x_on_y_non_parametically(x, y) in the mode "normal"
quantile_map_x_on_y_non_parametically(c, x, y) ==
    quantile_map_non_parametically(c, x, y, x)

\* the cdf of the distribution capability: (x - loc) / scale within [0, 1],
\* and nan for a scale that is not positive
distribution_cdf(x, fit) ==
    [i \in 1..Len(x) |->
        IF fit[2][1] <= 0 THEN NaN
        ELSE RMax(R(0), RMin(R(1), RDiv(RSub(x[i], fit[1]), fit[2])))]

\* self.distribution.fit(data, floc=floc, fscale=fscale): the location is
\* the lower threshold if there is one; the family has no parameter besides
\* location and scale, and a fit with both of them fixed raises
ISIMIP_step6_distribution_fit(c, data) ==
    IF Len(data) = 0 THEN Raised
    ELSE IF ISIMIP_has_lower_threshold(c) /\ ISIMIP_has_upper_threshold(c)
    THEN Raised
    ELSE IF ISIMIP_has_lower_threshold(c)
    THEN Returned(<<c.lower_threshold.v,
                    RSub(Sort(data)[Len(data)], c.lower_threshold.v)>>)
    ELSE distribution_fit(data)

\* the greatest of a sequence of values
GreatestOf(x) == CHOOSE m \in Range(x) : \A v \in Range(x) : RLe(v, m)

\* scipy.stats.kstest(data, cdf)[0] for the cdf values of the sorted data:
\* the greatest distance of the cdf from the empirical distribution function
\* on either side, and nan for cdf values that are nan
scipy_stats_kstest(cdf_vals) ==
    IF \E i \in 1..Len(cdf_vals) : cdf_vals[i] = NaN THEN NaN
    ELSE GreatestOf([i \in 1..(2 * Len(cdf_vals)) |->
            IF i <= Len(cdf_vals)
            THEN RSub(Rat(i, Len(cdf_vals)), cdf_vals[i])
            ELSE RSub(cdf_vals[i - Len(cdf_vals)],
                      Rat(i - Len(cdf_vals) - 1, Len(cdf_vals)))])

\* ISIMIP._step6_fit_good_enough: ks_statistic <= 0.5, which is False for nan
ISIMIP_step6_fit_good_enough(data, fit) ==
    /\ scipy_stats_kstest(distribution_cdf(Sort(data), fit)) # NaN
    /\ RLe(scipy_stats_kstest(distribution_cdf(Sort(data), fit)), Rat(1, 2))

\* the outcome of a quantile mapping, with the warning of the fallback
WithWarning(r, warned) == [ok |-> r.ok, val |-> r.val, warned |-> warned]

\* the parametric quantile mapping without event likelihood adjustment:
\* distribution.ppf(threshold_cdf_vals(distribution.cdf(x, *fit_cm_future)),
\* *fit_obs_future), the threshold being 1 / (10 * size)
ISIMIP_step6_map_parametrically(x, fit_cm_future, fit_obs_future) ==
    IF \E i \in 1..Len(x) : distribution_cdf(x, fit_cm_future)[i] = NaN
    THEN Returned([i \in 1..Len(x) |-> NaN])
    ELSE Returned(distribution_ppf(
             threshold_cdf_vals(distribution_cdf(x, fit_cm_future),
                                Rat(1, 10 * Len(x))),
             fit_obs_future))

\* the parametric quantile mapping whatever the goodness of the fits
ISIMIP_step6_adjust_values_without_fallback(c, obs_future_between, cm_future_not_sent_to_bound, cm_future_between, fit_cm_future, fit_obs_future) ==
    IF ~fit_cm_future.ok \/ ~fit_obs_future.ok THEN WithWarning(Raised, FALSE)
    ELSE WithWarning(ISIMIP_step6_map_parametrically(
             cm_future_not_sent_to_bound, fit_cm_future.val,
             fit_obs_future.val), FALSE)

\* ISIMIP._step6_adjust_values_between_thresholds from the fits on
ISIMIP_step6_adjust_values_of_fits(c, obs_future_between, cm_future_not_sent_to_bound, cm_future_between, fit_cm_future, fit_obs_future) ==
    IF ~fit_cm_future.ok \/ ~fit_obs_future.ok THEN WithWarning(Raised, FALSE)
    ELSE IF /\ c.ks_test_for_goodness_of_cdf_fit
            /\ ~(/\ ISIMIP_step6_fit_good_enough(cm_future_between,
                                                 fit_cm_future.val)
                 /\ ISIMIP_step6_fit_good_enough(obs_future_between,
                                                 fit_obs_future.val))
    THEN WithWarning(quantile_map_non_parametically(c,
             cm_future_not_sent_to_bound, obs_future_between,
             cm_future_not_sent_to_bound), TRUE)
    ELSE WithWarning(ISIMIP_step6_map_parametrically(
             cm_future_not_sent_to_bound, fit_cm_future.val,
             fit_obs_future.val), FALSE)

\* ISIMIP._step6_adjust_values_between_thresholds after the mapping of the
\* entries not sent to a bound on the entries between the thresholds
ISIMIP_step6_adjust_values_of_entries(c, obs_future_between, not_sent_to_bound, cm_future_between) ==
    IF ~not_sent_to_bound.ok THEN WithWarning(Raised, FALSE)
    ELSE IF c.nonparametric_qm
    THEN WithWarning(quantile_map_non_parametically(c, not_sent_to_bound.val,
             obs_future_between, not_sent_to_bound.val), FALSE)
    ELSE ISIMIP_step6_adjust_values_of_fits(c, obs_future_between,
             not_sent_to_bound.val, cm_future_between,
             ISIMIP_step6_distribution_fit(c, cm_future_between),
             ISIMIP_step6_distribution_fit(c, obs_future_between))

\* ISIMIP._step6_adjust_values_between_thresholds without event likelihood
\* adjustment
ISIMIP_step6_adjust_values_between_thresholds(c, obs_future_between, cm_future_not_sent_to_bound, cm_future_between) ==
    ISIMIP_step6_adjust_values_of_entries(c, obs_future_between,
        IF ISIMIP_has_threshold(c) /\ ~c.nonparametric_qm
        THEN quantile_map_x_on_y_non_parametically(c,
                 cm_future_not_sent_to_bound, cm_future_between)
        ELSE Returned(cm_future_not_sent_to_bound),
        cm_future_between)

\* round(): to the nearest integer, a half to the even neighbour
Round(a) ==
    LET fl == RFloor(a)
        twice == 2 * (a[1] - fl * a[2])
    IN  IF twice < a[2] THEN fl
        ELSE IF twice > a[2] THEN fl + 1
        ELSE IF fl % 2 = 0 THEN fl ELSE fl + 1

\* np.isclose(a, b) for fractions of counts: the tolerance of 1e-8 + 1e-5 |b|
\* is below the distance of two different fractions of the modelled sizes
isclose(a, b) == a = b

\* ISIMIP._step6_calculate_percent_values_beyond_threshold; x is the array
\* the mask belongs to
ISIMIP_step6_calculate_percent_values_beyond_threshold(mask, x) ==
    Rat(Len(mask), Len(x))

\* _step6_get_P_obs_future with the second and third formula exchanged
P_obs_future_with_formulas_exchanged(P_obs_hist, P_cm_hist, P_cm_future) ==
    IF isclose(P_cm_hist, P_obs_hist) THEN Returned(P_cm_future)
    ELSE IF RLe(P_cm_future, P_cm_hist) /\ RLt(P_obs_hist, P_cm_hist)
    THEN IF RSub(R(1), P_cm_hist)[1] = 0 THEN Raised
         ELSE Returned(RSub(R(1),
                RDiv(RMul(RSub(R(1), P_obs_hist), RSub(R(1), P_cm_future)),
                     RSub(R(1), P_cm_hist))))
    ELSE IF RLe(P_cm_hist, P_cm_future) /\ RLt(P_cm_hist, P_obs_hist)
    THEN IF P_cm_hist[1] = 0 THEN Raised
         ELSE Returned(RDiv(RMul(P_obs_hist, P_cm_future), P_cm_hist))
    ELSE Returned(RSub(RAdd(P_obs_hist, P_cm_future), P_cm_hist))

\* ISIMIP._step6_get_P_obs_future; a division by zero raises
ISIMIP_step6_get_P_obs_future(P_obs_hist, P_cm_hist, P_cm_future) ==
    IF isclose(P_cm_hist, P_obs_hist) THEN Returned(P_cm_future)
    ELSE IF RLe(P_cm_future, P_cm_hist) /\ RLt(P_obs_hist, P_cm_hist)
    THEN IF P_cm_hist[1] = 0 THEN Raised
         ELSE Returned(RDiv(RMul(P_obs_hist, P_cm_future), P_cm_hist))
    ELSE IF RLe(P_cm_hist, P_cm_future) /\ RLt(P_cm_hist, P_obs_hist)
    THEN IF RSub(R(1), P_cm_hist)[1] = 0 THEN Raised
         ELSE Returned(RSub(R(1),
                RDiv(RMul(RSub(R(1), P_obs_hist), RSub(R(1), P_cm_future)),
                     RSub(R(1), P_cm_hist))))
    ELSE Returned(RSub(RAdd(P_obs_hist, P_cm_future), P_cm_hist))

\* ISIMIP._step6_get_nr_of_entries_to_set_to_bound for the masks of one side
\* of the sorted arrays; the proportion of an empty array is nan, and
\* round() raises for it
ISIMIP_step6_get_nr_of_entries_to_set_to_bound(c, side, obs_hist_sorted, cm_hist_sorted, cm_future_sorted) ==
    IF Len(obs_hist_sorted) = 0
       \/ (c.adjust_frequencies_of_values_beyond_thresholds
           /\ (Len(cm_hist_sorted) = 0 \/ Len(cm_future_sorted) = 0))
    THEN Raised
    ELSE
    LET P_obs_hist == ISIMIP_step6_calculate_percent_values_beyond_threshold(
            ISIMIP_get_mask_for_values_beyond_threshold(c, side, obs_hist_sorted),
            obs_hist_sorted)
        P_cm_hist == ISIMIP_step6_calculate_percent_values_beyond_threshold(
            ISIMIP_get_mask_for_values_beyond_threshold(c, side, cm_hist_sorted),
            cm_hist_sorted)
        P_cm_future == ISIMIP_step6_calculate_percent_values_beyond_threshold(
            ISIMIP_get_mask_for_values_beyond_threshold(c, side, cm_future_sorted),
            cm_future_sorted)
        P_obs_future ==
            IF c.adjust_frequencies_of_values_beyond_thresholds
            THEN ISIMIP_step6_get_P_obs_future(P_obs_hist, P_cm_hist, P_cm_future)
            ELSE Returned(P_obs_hist)
    IN  IF ~P_obs_future.ok THEN Raised
        ELSE Returned(Round(RMul(R(Len(cm_future_sorted)), P_obs_future.val)))

\* the scaling of both numbers by the factor of the numbers handed in
scale_nr_of_entries_by_one_factor(nr_lower, nr_upper, size_cm_future) ==
    <<Round(Rat(nr_lower * size_cm_future, nr_lower + nr_upper)),
      Round(Rat(nr_upper * size_cm_future, nr_lower + nr_upper))>>

\* ISIMIP._step6_scale_nr_of_entries_to_set_to_bounds: the second division
\* reads the first number after its assignment
ISIMIP_step6_scale_nr_of_entries_to_set_to_bounds(nr_lower, nr_upper, size_cm_future) ==
    LET nr_of_entries_to_set_to_lower_bound ==
            Round(Rat(nr_lower * size_cm_future, nr_lower + nr_upper))
        nr_of_entries_to_set_to_upper_bound ==
            Round(Rat(nr_upper * size_cm_future,
                      nr_of_entries_to_set_to_lower_bound + nr_upper))
    IN  <<nr_of_entries_to_set_to_lower_bound,
          nr_of_entries_to_set_to_upper_bound>>

\* a slice bound of python: a negative one counts from the end, and every
\* bound is clipped to the array
SliceBound(k, size) ==
    IF k < 0 THEN (IF size + k < 0 THEN 0 ELSE size + k)
    ELSE IF k > size THEN size ELSE k

\* mask[1:nr] = True: the entry of lowest rank is left out
mask_for_entries_after_the_first(nr, cm_future_sorted) ==
    SetToSortedSeq(2..SliceBound(nr, Len(cm_future_sorted)))

\* mask[0:nr] = True
ISIMIP_step6_get_mask_for_entries_to_set_to_lower_bound(nr, cm_future_sorted) ==
    SetToSortedSeq(1..SliceBound(nr, Len(cm_future_sorted)))

\* mask[(cm_future_sorted.size - nr):] = True
ISIMIP_step6_get_mask_for_entries_to_set_to_upper_bound(nr, cm_future_sorted) ==
    SetToSortedSeq((SliceBound(Len(cm_future_sorted) - nr, Len(cm_future_sorted)) + 1)
                   ..Len(cm_future_sorted))

\* a bound as an array element; <<1, 0>> and <<-1, 0>> are the infinities
BoundValue(b) == IF b.inf = 0 THEN b.v ELSE <<b.inf, 0>>

\* the numbers of entries to set to the bounds, scaled when they sum to
\* more than the size of cm_future
ISIMIP_step6_nr_of_entries_scaled(lower, upper, size_cm_future) ==
    IF ~lower.ok \/ ~upper.ok
    THEN [ok |-> FALSE, unscaled |-> <<>>, val |-> <<>>]
    ELSE [ok |-> TRUE, unscaled |-> <<lower.val, upper.val>>,
          val |-> IF lower.val + upper.val > size_cm_future
                  THEN ISIMIP_step6_scale_nr_of_entries_to_set_to_bounds(
                           lower.val, upper.val, size_cm_future)
                  ELSE <<lower.val, upper.val>>]

\* the numbers of entries that ISIMIP.step6 sets to the lower and to the
\* upper bound: before (unscaled) and after the scaling
ISIMIP_step6_nr_of_entries(c, obs_hist_sorted, cm_hist_sorted, cm_future_sorted) ==
    ISIMIP_step6_nr_of_entries_scaled(
        IF ISIMIP_has_lower_threshold(c)
        THEN ISIMIP_step6_get_nr_of_entries_to_set_to_bound(c, "lower",
                 obs_hist_sorted, cm_hist_sorted, cm_future_sorted)
        ELSE Returned(0),
        IF ISIMIP_has_upper_threshold(c)
        THEN ISIMIP_step6_get_nr_of_entries_to_set_to_bound(c, "upper",
                 obs_hist_sorted, cm_hist_sorted, cm_future_sorted)
        ELSE Returned(0),
        Len(cm_future_sorted))

\* mapped_vals[mask_for_entries_to_set_to_lower_bound] = self.lower_bound,
\* then the same for the upper bound; mask_not_set is what is left
ISIMIP_step6_set_to_bounds(c, cm_future_sorted, mask_lower, mask_upper) ==
    [mapped_vals |-> Array([i \in 1..Len(cm_future_sorted) |->
        IF i \in Range(mask_upper) THEN BoundValue(c.upper_bound)
        ELSE IF i \in Range(mask_lower) THEN BoundValue(c.lower_bound)
        ELSE cm_future_sorted[i]]),
     mask_not_set |-> SetToSortedSeq(
        (1..Len(cm_future_sorted)) \ (Range(mask_lower) \cup Range(mask_upper)))]

\* the values in the order of cm_future: mapped_vals[reverse_sorting_idx]
ISIMIP_step6_return(nr, s, r, reverse_sorting_idx) ==
    IF ~nr.ok THEN WithWarning(Raised, FALSE)
    ELSE IF Len(s.mask_not_set) = 0
    THEN WithWarning(Returned(Gather(s.mapped_vals, reverse_sorting_idx)), FALSE)
    ELSE IF ~r.ok THEN WithWarning(Raised, r.warned)
    ELSE WithWarning(Returned(Gather(Scatter(s.mapped_vals, s.mask_not_set,
                                             r.val),
                                     reverse_sorting_idx)), r.warned)

\* ISIMIP.step6 once the entries set to the bounds are known
ISIMIP_step6_between_thresholds(c, obs_future_sorted, cm_future_argsort, cm_future_sorted, nr, s) ==
    ISIMIP_step6_return(nr, s,
        ISIMIP_step6_adjust_values_between_thresholds(c,
            ISIMIP_get_values_between_thresholds(c, obs_future_sorted),
            Gather(s.mapped_vals, s.mask_not_set),
            ISIMIP_get_values_between_thresholds(c, cm_future_sorted)),
        Argsort([i \in 1..Len(cm_future_argsort) |-> R(cm_future_argsort[i])]))

\* ISIMIP.step6 once the numbers of entries to set to the bounds are known
ISIMIP_step6_beyond_thresholds(c, obs_future_sorted, cm_future_argsort, cm_future_sorted, nr) ==
    ISIMIP_step6_between_thresholds(c, obs_future_sorted, cm_future_argsort,
        cm_future_sorted, nr,
        ISIMIP_step6_set_to_bounds(c, cm_future_sorted,
            ISIMIP_step6_get_mask_for_entries_to_set_to_lower_bound(
                nr.val[1], cm_future_sorted),
            ISIMIP_step6_get_mask_for_entries_to_set_to_upper_bound(
                nr.val[2], cm_future_sorted)))

\* ISIMIP.step6 on the sorted arrays
ISIMIP_step6_of_sorted(c, obs_hist_sorted, obs_future_sorted, cm_hist_sorted, cm_future_argsort, cm_future_sorted) ==
    ISIMIP_step6_beyond_thresholds(c, obs_future_sorted, cm_future_argsort,
        cm_future_sorted,
        ISIMIP_step6_nr_of_entries(c, obs_hist_sorted, cm_hist_sorted,
                                   cm_future_sorted))

\* ISIMIP.step6
ISIMIP_step6(c, obs_hist, obs_future, cm_hist, f) ==
    ISIMIP_step6_of_sorted(c, Sort(obs_hist), Sort(obs_future), Sort(cm_hist),
                           Argsort(f), Gather(f, Argsort(f)))

\* ISIMIP.step7
ISIMIP_step7(c, f, trend_cm_future) ==
    IF c.detrending
    THEN [i \in 1..Len(f) |-> RAdd(f[i], trend_cm_future[i])]
    ELSE f

\* ISIMIP._apply_on_window: the stages 2 to 7 on one chunk
ISIMIP_apply_on_window(c, o, h, f, years_obs_hist, years_cm_hist, years_cm_future, state) ==
    LET s2 == ISIMIP_step2(c, o, h, f, state)
        s3 == ISIMIP_step3(c, s2.obs_hist, s2.cm_hist, s2.cm_future,
                           years_obs_hist, years_cm_hist, years_cm_future)
        s4 == ISIMIP_step4(c, s3.obs_hist, s3.cm_hist, s3.cm_future, s2.state)
        s5 == ISIMIP_step5(c, s4.obs_hist, s4.cm_hist, s4.cm_future)
        s6 == ISIMIP_step6(c, s4.obs_hist, s5.val, s4.cm_hist, s4.cm_future)
    IN  IF ~s2.ok \/ ~s3.ok \/ ~s4.ok \/ ~s5.ok \/ ~s6.ok THEN Raised
        ELSE Returned(ISIMIP_step7(c, s6.val, s3.trend_cm_future))

(***************************************************************************)
(* The inputs of apply_location.                                           *)
(***************************************************************************)
\* the long series span up to NYears years, one sample in every month
NYears == 2
FirstYear == 2001

MonthlyDates(ny) ==
    [i \in 1..(MonthsInYear * ny) |->
        <<FirstYear + ((i - 1) \div MonthsInYear),
          CumDays[((i - 1) % MonthsInYear) + 1] - 15>>]

\* the short series have one sample a year: early January, July, late
\* December, ...
ShortDates(n) ==
    [i \in 1..n |-> <<FirstYear + (i - 1),
                      IF i % 3 = 1 THEN 3 ELSE IF i % 3 = 2 THEN 200 ELSE 360>>]

LongSeries(ny, a) ==
    [vals |-> [i \in 1..(MonthsInYear * ny) |-> R(1 + ((a * i) % 11))],
     time |-> MonthlyDates(ny)]
ShortSeries(n, a, m) ==
    [vals |-> [i \in 1..n |-> R(1 + ((a * i) % m))], time |-> ShortDates(n)]

FutureChoices ==
    {LongSeries(NYears, 7), ShortSeries(MaxLen, 1, MaxVal), ShortSeries(2, 2, MaxVal)}
ObsChoices == {LongSeries(1, 3), ShortSeries(MaxLen, 2, MaxVal)}
HistChoices == {LongSeries(1, 5), ShortSeries(2, 1, MaxVal)}

\* which time arrays the caller supplies, and whether one is a sample short
TimeModes == {"given", "none", "no_cm_future", "short_obs", "no_obs_short_hist"}
Supplied(mode, which, time) ==
    IF mode = "none" THEN <<>>
    ELSE IF mode = "no_cm_future" /\ which = "cm_future" THEN <<>>
    ELSE IF mode = "short_obs" /\ which = "obs" THEN SubSeq(time, 1, Len(time) - 1)
    ELSE IF mode = "no_obs_short_hist" /\ which = "obs" THEN <<>>
    ELSE IF mode = "no_obs_short_hist" /\ which = "cm_hist"
         THEN SubSeq(time, 1, Len(time) - 1)
    ELSE time
IsGiven(mode, which) ==
    ~(mode = "none"
      \/ (mode = "no_cm_future" /\ which = "cm_future")
      \/ (mode = "no_obs_short_hist" /\ which = "obs"))

(***************************************************************************)
(* The configurations.                                                     *)
(***************************************************************************)
YearWindows == {<<3, 1>>, <<3, 3>>}
DayWindows == {<<365, 183>>, <<183, 183>>}

CDFtConfig(ds, bm, rw, yw) ==
    [SSR |-> FALSE, delta_shift |-> ds, apply_by_month |-> bm,
     running_window_mode |-> rw,
     running_window_length_in_years |-> yw[1],
     running_window_step_length_in_years |-> yw[2],
     ecdf_method |-> "linear_interpolation", iecdf_method |-> "linear"]

CDFtConfigs ==
    {CDFtConfig(ds, bm, TRUE, yw) :
        ds \in {"additive", "no_shift"}, bm \in BOOLEAN, yw \in YearWindows}
    \cup {CDFtConfig(ds, bm, FALSE, <<17, 9>>) :
        ds \in {"additive", "no_shift"}, bm \in BOOLEAN}

\* QuantileDeltaMapping.__attrs_post_init__ sets the cdf_threshold left unset
QDMConfig(tp, cz, wy, dw, oy, yw) ==
    [trend_preservation |-> tp, censor_values_to_zero |-> cz,
     censoring_threshold |-> R(3),
     running_window_mode_over_years_of_cm_future |-> oy,
     running_window_over_years_of_cm_future_length |-> yw[1],
     running_window_over_years_of_cm_future_step_length |-> yw[2],
     running_window_mode_within_year |-> wy,
     running_window_within_year_length |-> dw[1],
     running_window_within_year_step_length |-> dw[2],
     ecdf_method |-> "linear_interpolation",
     cdf_threshold |-> Rat(1, dw[1] * yw[1] + 1)]

QDMConfigs ==
    {QDMConfig(tp, cz, TRUE, dw, oy, <<3, 1>>) :
        tp \in {"absolute", "relative"}, cz \in BOOLEAN, dw \in DayWindows,
        oy \in BOOLEAN}
    \cup {QDMConfig(tp, cz, FALSE, <<91, 31>>, oy, <<3, 1>>) :
        tp \in {"absolute", "relative"}, cz \in BOOLEAN, oy \in BOOLEAN}

NoRange == [given |-> FALSE, lo |-> <<0, 1>>, hi |-> <<0, 1>>]
PhysicalRange(lo, hi) == [given |-> TRUE, lo |-> R(lo), hi |-> R(hi)]

ISIMIPConfig(rw, dw, rg, tt) ==
    [trend_preservation_method |-> "additive", detrending |-> FALSE,
     reasonable_physical_range |-> rg,
     lower_bound |-> NegInf, lower_threshold |-> NegInf,
     upper_bound |-> PosInf, upper_threshold |-> PosInf,
     scale_by_annual_cycle_of_upper_bounds |-> FALSE,
     impute_missing_values |-> FALSE,
     trend_removal_with_significance_test |-> TRUE,
     trend_transfer_only_for_values_within_threshold |-> tt,
     adjust_frequencies_of_values_beyond_thresholds |-> TRUE,
     ks_test_for_goodness_of_cdf_fit |-> TRUE,
     nonparametric_qm |-> TRUE,
     ecdf_method |-> "linear_interpolation", iecdf_method |-> "linear",
     running_window_mode |-> rw,
     running_window_length |-> dw[1], running_window_step_length |-> dw[2]]

ISIMIPConfigs ==
    {ISIMIPConfig(TRUE, dw, rg, tt) :
        dw \in DayWindows, tt \in BOOLEAN,
        rg \in {NoRange, PhysicalRange(1, 3), PhysicalRange(2, 11)}}
    \cup {ISIMIPConfig(FALSE, <<31, 1>>, rg, tt) :
        tt \in BOOLEAN,
        rg \in {NoRange, PhysicalRange(1, 3), PhysicalRange(2, 11)}}

(***************************************************************************)
(* The state of one apply_location call.                                   *)
(***************************************************************************)
VARIABLES
    debiaser,             \* "CDFt", "QDM" or "ISIMIP"
    cfg,                  \* the debiaser's attributes
    obs, cm_hist, cm_future,                \* the caller's arrays
    time_obs, time_cm_hist, time_cm_future, \* the time arrays in use
    time_given,           \* which time arrays the caller supplied
    pc,                   \* the position in apply_location
    warnings,             \* the number of warnings emitted
    work,                 \* ISIMIP: the series after step 1
    windows,              \* the windows (or months) still to iterate
    debiased_cm_future,   \* the output array being filled
    writes,               \* how often each output element was assigned
    inner_writes,         \* the assignment counts seen in inner loops
    log,                  \* the chunks processed: target, context, output
    chunk,                \* ISIMIP: the chunk in progress
    stages,               \* ISIMIP: the stages run so far, in order
    result,               \* the returned series, once pc = "done"
    error,                \* the error raised, once pc = "raised"
    np_random             \* the state of the generator of the process

vars == <<debiaser, cfg, obs, cm_hist, cm_future, time_obs, time_cm_hist,
          time_cm_future, time_given, pc, warnings, work, windows,
          debiased_cm_future, writes, inner_writes, log, chunk, stages,
          result, error, np_random>>

inputs == <<debiaser, cfg, obs, cm_hist, cm_future, time_given>>
times == <<time_obs, time_cm_hist, time_cm_future>>
loop == <<windows, debiased_cm_future, writes, inner_writes, log>>

NoWork == [obs_hist |-> <<>>, cm_hist |-> <<>>, cm_future |-> <<>>]
NoChunk == [d |-> <<>>, obs_hist |-> <<>>, cm_hist |-> <<>>, cm_future |-> <<>>,
            obs_future |-> <<>>, trend_cm_future |-> <<>>, base |-> <<>>]

Init ==
    /\ debiaser \in {"CDFt", "QDM", "ISIMIP"}
    /\ cfg \in (IF debiaser = "CDFt" THEN CDFtConfigs
                ELSE IF debiaser = "QDM" THEN QDMConfigs ELSE ISIMIPConfigs)
    /\ \E o \in ObsChoices, h \in HistChoices, f \in FutureChoices,
          mode \in TimeModes :
        /\ obs = o.vals
        /\ cm_hist = h.vals
        /\ cm_future = f.vals
        /\ time_obs = Supplied(mode, "obs", o.time)
        /\ time_cm_hist = Supplied(mode, "cm_hist", h.time)
        /\ time_cm_future = Supplied(mode, "cm_future", f.time)
        /\ time_given = [obs |-> IsGiven(mode, "obs"),
                         cm_hist |-> IsGiven(mode, "cm_hist"),
                         cm_future |-> IsGiven(mode, "cm_future")]
    /\ pc = IF debiaser = "ISIMIP" THEN "call" ELSE "time"
    /\ warnings = 0
    /\ work = NoWork
    /\ windows = <<>>
    /\ debiased_cm_future = <<>>
    /\ writes = <<>>
    /\ inner_writes = {}
    /\ log = <<>>
    /\ chunk = NoChunk
    /\ stages = <<>>
    /\ result = <<>>
    /\ error = "none"
    /\ np_random = 0

Raise(e) ==
    /\ pc' = "raised"
    /\ error' = e
    /\ UNCHANGED result

(***************************************************************************)
(* The prologue of apply_location.                                         *)
(***************************************************************************)
\* ISIMIP.apply_location: self._check_reasonable_physical_range(...)
CheckReasonablePhysicalRange ==
    /\ pc = "call"
    /\ IF ISIMIP_check_reasonable_physical_range(cfg, obs, cm_hist, cm_future)
       THEN Raise("physical_range")
       ELSE pc' = "time" /\ UNCHANGED <<result, error>>
    /\ UNCHANGED <<inputs, times, warnings, work, loop, chunk, stages>>
    /\ UNCHANGED np_random

AllTimesGiven == time_given.obs /\ time_given.cm_hist /\ time_given.cm_future

\* the inference of the dates without the warning
InferTimeWithoutWarning ==
    /\ pc = "time"
    /\ ~AllTimesGiven
    /\ LET t == infer_and_create_time_arrays_if_not_given(obs, cm_hist, cm_future)
       IN  /\ time_obs' = t[1]
           /\ time_cm_hist' = t[2]
           /\ time_cm_future' = t[3]
    /\ pc' = "check"
    /\ UNCHANGED <<inputs, warnings, work, loop, chunk, stages, result, error>>
    /\ UNCHANGED np_random

\* if time_obs is None or time_cm_hist is None or time_cm_future is None
InferTime ==
    /\ pc = "time"
    /\ ~AllTimesGiven
    /\ warnings' = warnings + 1
    /\ LET t == infer_and_create_time_arrays_if_not_given(obs, cm_hist, cm_future)
       IN  /\ time_obs' = t[1]
           /\ time_cm_hist' = t[2]
           /\ time_cm_future' = t[3]
    /\ pc' = "check"
    /\ UNCHANGED <<inputs, work, loop, chunk, stages, result, error>>
    /\ UNCHANGED np_random

\* _check_time_information_and_raise_error(...)
CheckTime ==
    /\ pc = "check" \/ (pc = "time" /\ AllTimesGiven)
    /\ IF check_time_information_and_raise_error(obs, cm_hist, cm_future,
                                    time_obs, time_cm_hist, time_cm_future)
       THEN Raise("time_information")
       ELSE /\ pc' = IF debiaser = "ISIMIP" THEN "step1" ELSE "iterate"
            /\ UNCHANGED <<result, error>>
    /\ UNCHANGED <<inputs, times, warnings, work, loop, chunk, stages>>
    /\ UNCHANGED np_random

(***************************************************************************)
(* The iteration of apply_location.  A chunk descriptor names the indices  *)
(* of cm_future that a window debiases (target), the indices of obs,       *)
(* cm_hist and cm_future that form its context, and the positions of the   *)
(* context of cm_future that are taken from the chunk's result (sel).      *)
(***************************************************************************)
All(x) == [i \in 1..Len(x) |-> i]

\* np.empty_like / np.zeros_like(cm_future), not yet assigned
StartLoop(ws, placeholder) ==
    /\ windows' = ws
    /\ debiased_cm_future' = [i \in 1..Len(cm_future) |-> placeholder]
    /\ writes' = [i \in 1..Len(cm_future) |-> 0]
    /\ UNCHANGED <<inner_writes, log>>

\* debiased_cm_future[d.target] = out[d.sel], for the chunk result out
AssignChunk(d, out, wr) ==
    LET a == NumpyAssign(debiased_cm_future, d.target, Gather(out, d.sel)) IN
    IF ~a.ok THEN Raise("shape_mismatch") /\ UNCHANGED loop
    ELSE /\ debiased_cm_future' = a.val
         /\ writes' = [i \in 1..Len(writes) |->
                          IF i \in Range(d.target) THEN writes[i] + 1
                          ELSE writes[i]]
         /\ inner_writes' = inner_writes \cup Range(wr)
         /\ log' = Append(log, [d |-> d, out |-> out])
         /\ windows' = Tail(windows)
         /\ UNCHANGED <<pc, result, error>>

\* the window with the whole context written back
CDFt_window_writing_context(years_cm_future, w) ==
    LET mask_years_in_window ==
            get_if_in_chosen_years(years_cm_future, w.years_in_window)
    IN  [target |-> mask_years_in_window,
         in_obs |-> All(obs),
         in_cm_hist |-> All(cm_hist),
         in_cm_future |-> mask_years_in_window,
         sel |-> All(mask_years_in_window)]

\* the masks of one window of CDFt.apply_location
CDFt_window(years_cm_future, w) ==
    LET mask_years_in_window ==
            get_if_in_chosen_years(years_cm_future, w.years_in_window)
    IN  [target |-> get_if_in_chosen_years(years_cm_future, w.years_to_debias),
         in_obs |-> All(obs),
         in_cm_hist |-> All(cm_hist),
         in_cm_future |-> mask_years_in_window,
         sel |-> get_if_in_chosen_years(
                    Gather(years_cm_future, mask_years_in_window),
                    w.years_to_debias)]

\* CDFt.apply_location, running_window_mode: before the loop
CDFtBeginWindows ==
    /\ pc = "iterate" /\ debiaser = "CDFt" /\ cfg.running_window_mode
    /\ StartLoop(RunningWindowOverYears_use(year(time_cm_future),
                    cfg.running_window_length_in_years,
                    cfg.running_window_step_length_in_years), Uninit)
    /\ pc' = "window"
    /\ UNCHANGED <<inputs, times, warnings, work, chunk, stages, result, error>>
    /\ UNCHANGED np_random

\* CDFt.apply_location, running_window_mode: one pass of the loop
CDFtWindow ==
    /\ pc = "window" /\ debiaser = "CDFt" /\ windows # <<>>
    /\ \E d \in {CDFt_window(year(time_cm_future), Head(windows))} :
       \E r \in {CDFt_apply_on_window(cfg, obs, cm_hist,
                    Gather(cm_future, d.in_cm_future), time_obs, time_cm_hist,
                    Gather(time_cm_future, d.in_cm_future), np_random)} :
           /\ IF ~r.ok THEN Raise(r.error) /\ UNCHANGED loop
              ELSE AssignChunk(d, r.val, <<>>)
           /\ np_random' = r.state
    /\ UNCHANGED <<inputs, times, warnings, work, chunk, stages>>

\* return debiased_cm_future
ReturnDebiased(out) ==
    /\ result' = out
    /\ pc' = "done"
    /\ UNCHANGED error

CDFtReturn ==
    /\ pc = "window" /\ debiaser = "CDFt" /\ windows = <<>>
    /\ ReturnDebiased(debiased_cm_future)
    /\ UNCHANGED <<inputs, times, warnings, work, loop, chunk, stages>>
    /\ UNCHANGED np_random

\* CDFt.apply_location without running window
CDFtApplyOnWindow ==
    /\ pc = "iterate" /\ debiaser = "CDFt" /\ ~cfg.running_window_mode
    /\ \E r \in {CDFt_apply_on_window(cfg, obs, cm_hist, cm_future,
                    time_obs, time_cm_hist, time_cm_future, np_random)} :
           /\ IF r.ok THEN ReturnDebiased(r.val) ELSE Raise(r.error)
           /\ np_random' = r.state
    /\ UNCHANGED <<inputs, times, warnings, work, loop, chunk, stages>>

\* the window with the result read at the leading positions of the context
\* instead of the positions np.in1d finds
DayWindow_reading_leading_positions(w, length) ==
    LET indices_window_cm_future ==
            get_indices_vals_in_window(day_of_year(time_cm_future),
                                       w.window_center, length)
    IN  [target |-> w.indices,
         in_obs |-> get_indices_vals_in_window(day_of_year(time_obs),
                                               w.window_center, length),
         in_cm_hist |-> get_indices_vals_in_window(day_of_year(time_cm_hist),
                                                   w.window_center, length),
         in_cm_future |-> indices_window_cm_future,
         sel |-> [k \in 1..Len(w.indices) |-> k]]

\* the indices of one window over the days of the year, in
\* QuantileDeltaMapping.apply_location and ISIMIP.apply_location
DayWindow(w, length) ==
    LET indices_window_cm_future ==
            get_indices_vals_in_window(day_of_year(time_cm_future),
                                       w.window_center, length)
    IN  [target |-> w.indices,
         in_obs |-> get_indices_vals_in_window(day_of_year(time_obs),
                                               w.window_center, length),
         in_cm_hist |-> get_indices_vals_in_window(day_of_year(time_cm_hist),
                                                   w.window_center, length),
         in_cm_future |-> indices_window_cm_future,
         sel |-> In1d(indices_window_cm_future, w.indices)]

QDM_window(w) == DayWindow(w, cfg.running_window_within_year_length)

\* the start of the loop with self.cdf_threshold set from the size of obs
QDMBeginWindowsSettingCdfThreshold ==
    /\ pc = "iterate" /\ debiaser = "QDM" /\ cfg.running_window_mode_within_year
    /\ StartLoop(RunningWindowOverDaysOfYear_use(day_of_year(time_cm_future),
                    year(time_cm_future),
                    cfg.running_window_within_year_step_length), R(0))
    /\ pc' = "window"
    /\ cfg' = [cfg EXCEPT !.cdf_threshold = Rat(1, Len(obs) + 1)]
    /\ UNCHANGED <<debiaser, obs, cm_hist, cm_future, time_given, times,
                   warnings, work, chunk, stages, result, error>>
    /\ UNCHANGED np_random

\* QuantileDeltaMapping.apply_location, running_window_mode_within_year
QDMBeginWindows ==
    /\ pc = "iterate" /\ debiaser = "QDM" /\ cfg.running_window_mode_within_year
    /\ StartLoop(RunningWindowOverDaysOfYear_use(day_of_year(time_cm_future),
                    year(time_cm_future),
                    cfg.running_window_within_year_step_length), R(0))
    /\ pc' = "window"
    /\ UNCHANGED <<inputs, times, warnings, work, chunk, stages, result, error>>
    /\ UNCHANGED np_random

QDMWindow ==
    /\ pc = "window" /\ debiaser = "QDM" /\ windows # <<>>
    /\ \E d \in {QDM_window(Head(windows))} :
       \E r \in {QDM_apply_on_within_year_window(cfg,
                    Gather(obs, d.in_obs), Gather(cm_hist, d.in_cm_hist),
                    Gather(cm_future, d.in_cm_future),
                    Gather(year(time_cm_future), d.in_cm_future))} :
           IF ~r.ok THEN Raise("empty_sample") /\ UNCHANGED loop
           ELSE AssignChunk(d, r.val, r.wr)
    /\ UNCHANGED <<inputs, times, warnings, work, chunk, stages>>
    /\ UNCHANGED np_random

QDMReturn ==
    /\ pc = "window" /\ debiaser = "QDM" /\ windows = <<>>
    /\ ReturnDebiased(debiased_cm_future)
    /\ UNCHANGED <<inputs, times, warnings, work, loop, chunk, stages>>
    /\ UNCHANGED np_random

\* QuantileDeltaMapping.apply_location without window within the year
QDMApplyOnWithinYearWindow ==
    /\ pc = "iterate" /\ debiaser = "QDM" /\ ~cfg.running_window_mode_within_year
    /\ \E r \in {QDM_apply_on_within_year_window(cfg, obs, cm_hist, cm_future,
                                                year(time_cm_future))} :
           IF r.ok
           THEN /\ ReturnDebiased(r.val)
                /\ inner_writes' = inner_writes \cup Range(r.wr)
           ELSE Raise("empty_sample") /\ UNCHANGED inner_writes
    /\ UNCHANGED <<inputs, times, warnings, work, windows, debiased_cm_future,
                   writes, log, chunk, stages>>
    /\ UNCHANGED np_random

(***************************************************************************)
(* ISIMIP.apply_location: step 1, the chunks (stages 2 to 7), step 8.      *)
(***************************************************************************)
ISIMIP_window(w) == DayWindow(w, cfg.running_window_length)

\* the masks of one month of ISIMIP.apply_location
ISIMIP_month(i_month) ==
    [target |-> MonthMask(time_cm_future, i_month),
     in_obs |-> MonthMask(time_obs, i_month),
     in_cm_hist |-> MonthMask(time_cm_hist, i_month),
     in_cm_future |-> MonthMask(time_cm_future, i_month),
     sel |-> All(MonthMask(time_cm_future, i_month))]

ISIMIP_chunk(w) ==
    IF cfg.running_window_mode THEN ISIMIP_window(w) ELSE ISIMIP_month(w)

\* self.step1(...), then the set-up of the iteration
ISIMIPStep1 ==
    /\ pc = "step1"
    /\ stages' = Append(stages, "step1")
    /\ work' = ISIMIP_step1(cfg, obs, cm_hist, cm_future)
    /\ StartLoop(IF cfg.running_window_mode
                 THEN RunningWindowOverDaysOfYear_use(
                        day_of_year(time_cm_future), year(time_cm_future),
                        cfg.running_window_step_length)
                 ELSE [m \in 1..MonthsInYear |-> m], R(0))
    /\ pc' = "chunk"
    /\ UNCHANGED <<inputs, times, warnings, chunk, result, error>>
    /\ UNCHANGED np_random

\* x[idx] with a slice for idx: a view, which shares the memory of x
ndarray_view(x, idx) == [vals |-> Gather(x, idx), base |-> "x"]

\* x[idx] for an array of indices or a boolean mask idx: a copy, which owns
\* its memory
ndarray_getitem(x, idx) == [vals |-> Gather(x, idx), base |-> "own"]

\* an assignment in place to the arrays of the chunk d, which now hold the
\* values of r: an array that is a view writes to the array it is a view
\* of; step1 returned the arrays of the caller
AssignInPlace(d, base, r) ==
    /\ obs' = IF base[1] = "own" THEN obs
              ELSE Scatter(obs, d.in_obs, r.obs_hist)
    /\ cm_hist' = IF base[2] = "own" THEN cm_hist
                  ELSE Scatter(cm_hist, d.in_cm_hist, r.cm_hist)
    /\ cm_future' = IF base[3] = "own" THEN cm_future
                    ELSE Scatter(cm_future, d.in_cm_future, r.cm_future)
    /\ work' = [obs_hist |-> IF base[1] = "own" THEN work.obs_hist
                             ELSE Scatter(work.obs_hist, d.in_obs, r.obs_hist),
                cm_hist |-> IF base[2] = "own" THEN work.cm_hist
                            ELSE Scatter(work.cm_hist, d.in_cm_hist, r.cm_hist),
                cm_future |-> IF base[3] = "own" THEN work.cm_future
                              ELSE Scatter(work.cm_future, d.in_cm_future,
                                           r.cm_future)]

\* the next window or month is entered and self.step2(...) runs on it; the
\* stage at pc_after_step2 follows
ISIMIPEnterChunk(pc_after_step2) ==
    /\ stages' = stages \o <<"chunk", "step2">>
    /\ \E d \in {ISIMIP_chunk(Head(windows))} :
       \E o \in {ndarray_getitem(work.obs_hist, d.in_obs)},
          h \in {ndarray_getitem(work.cm_hist, d.in_cm_hist)},
          f \in {ndarray_getitem(work.cm_future, d.in_cm_future)} :
       \E r \in {ISIMIP_step2(cfg, o.vals, h.vals, f.vals, np_random)} :
           IF ~r.ok
           THEN /\ Raise("imputation")
                /\ UNCHANGED <<obs, cm_hist, cm_future, work, chunk, np_random>>
           ELSE /\ chunk' = [NoChunk EXCEPT !.d = d, !.obs_hist = r.obs_hist,
                                !.cm_hist = r.cm_hist, !.cm_future = r.cm_future,
                                !.base = <<o.base, h.base, f.base>>]
                /\ IF cfg.impute_missing_values
                   THEN AssignInPlace(d, <<o.base, h.base, f.base>>, r)
                   ELSE UNCHANGED <<obs, cm_hist, cm_future, work>>
                /\ np_random' = r.state
                /\ pc' = pc_after_step2
                /\ UNCHANGED <<result, error>>
    /\ UNCHANGED <<debiaser, cfg, time_given, times, warnings, loop>>

\* the chunk with step 3 left out
ISIMIPStep2ThenStep4 ==
    /\ pc = "chunk" /\ windows # <<>>
    /\ ISIMIPEnterChunk("step4")

ISIMIPStep2 ==
    /\ pc = "chunk" /\ windows # <<>>
    /\ ISIMIPEnterChunk("step3")

ISIMIPStep3 ==
    /\ pc = "step3"
    /\ stages' = Append(stages, "step3")
    /\ \E r \in {ISIMIP_step3(cfg, chunk.obs_hist, chunk.cm_hist, chunk.cm_future,
                             Gather(year(time_obs), chunk.d.in_obs),
                             Gather(year(time_cm_hist), chunk.d.in_cm_hist),
                             Gather(year(time_cm_future), chunk.d.in_cm_future))} :
           IF ~r.ok THEN Raise("regression") /\ UNCHANGED chunk
           ELSE /\ chunk' = [chunk EXCEPT !.obs_hist = r.obs_hist,
                                !.cm_hist = r.cm_hist, !.cm_future = r.cm_future,
                                !.trend_cm_future = r.trend_cm_future,
                                !.base = IF cfg.detrending
                                         THEN <<"own", "own", "own">> ELSE @]
                /\ pc' = "step4"
                /\ UNCHANGED <<result, error>>
    /\ UNCHANGED <<inputs, times, warnings, work, loop>>
    /\ UNCHANGED np_random

ISIMIPStep4 ==
    /\ pc = "step4"
    /\ \E r \in {ISIMIP_step4(cfg, chunk.obs_hist, chunk.cm_hist, chunk.cm_future,
                             np_random)} :
           /\ chunk' = [chunk EXCEPT !.obs_hist = r.obs_hist,
                           !.cm_hist = r.cm_hist, !.cm_future = r.cm_future]
           /\ IF chunk.cm_future # r.cm_future \/ chunk.obs_hist # r.obs_hist
                 \/ chunk.cm_hist # r.cm_hist
              THEN AssignInPlace(chunk.d, chunk.base, r)
              ELSE UNCHANGED <<obs, cm_hist, cm_future, work>>
           /\ np_random' = r.state
           /\ IF r.ok THEN pc' = "step5" /\ UNCHANGED <<result, error>>
              ELSE Raise("overflow")
    /\ stages' = Append(stages, "step4")
    /\ UNCHANGED <<debiaser, cfg, time_given, times, warnings, loop>>

ISIMIPStep5 ==
    /\ pc = "step5"
    /\ stages' = Append(stages, "step5")
    /\ LET r == ISIMIP_step5(cfg, chunk.obs_hist, chunk.cm_hist, chunk.cm_future)
       IN  IF ~r.ok THEN Raise("empty_sample") /\ UNCHANGED chunk
           ELSE /\ chunk' = [chunk EXCEPT !.obs_future = r.val]
                /\ pc' = "step6"
                /\ UNCHANGED <<result, error>>
    /\ UNCHANGED <<inputs, times, warnings, work, loop>>
    /\ UNCHANGED np_random

ISIMIPStep6 ==
    /\ pc = "step6"
    /\ stages' = Append(stages, "step6")
    /\ \E r \in {ISIMIP_step6(cfg, chunk.obs_hist, chunk.obs_future,
                             chunk.cm_hist, chunk.cm_future)} :
           /\ IF ~r.ok THEN Raise("empty_sample") /\ UNCHANGED chunk
              ELSE /\ chunk' = [chunk EXCEPT !.cm_future = r.val]
                   /\ pc' = "step7"
                   /\ UNCHANGED <<result, error>>
           /\ warnings' = IF r.warned THEN warnings + 1 ELSE warnings
    /\ UNCHANGED <<inputs, times, work, loop>>
    /\ UNCHANGED np_random

\* self.step7(...), the return of _apply_on_window and the assignment of
\* its result to debiased_cm_future
ISIMIPStep7 ==
    /\ pc = "step7"
    /\ LET out == ISIMIP_step7(cfg, chunk.cm_future, chunk.trend_cm_future)
           a == NumpyAssign(debiased_cm_future, chunk.d.target,
                            Gather(out, chunk.d.sel))
       IN  IF ~a.ok
           THEN /\ Raise("shape_mismatch")
                /\ stages' = Append(stages, "step7")
                /\ UNCHANGED <<loop, chunk>>
           ELSE /\ stages' = stages \o <<"step7", "assign">>
                /\ debiased_cm_future' = a.val
                /\ writes' = [i \in 1..Len(writes) |->
                                IF i \in Range(chunk.d.target)
                                THEN writes[i] + 1 ELSE writes[i]]
                /\ log' = Append(log, [d |-> chunk.d, out |-> out])
                /\ windows' = Tail(windows)
                /\ chunk' = NoChunk
                /\ pc' = "chunk"
                /\ UNCHANGED <<inner_writes, result, error>>
    /\ UNCHANGED <<inputs, times, warnings, work>>
    /\ UNCHANGED np_random

\* self.step8(...) and the return
ISIMIPStep8 ==
    /\ pc = "chunk" /\ windows = <<>>
    /\ stages' = Append(stages, "step8")
    /\ ReturnDebiased(ISIMIP_step8(cfg, debiased_cm_future))
    /\ UNCHANGED <<inputs, times, warnings, work, loop, chunk>>
    /\ UNCHANGED np_random

Next ==
    \/ CheckReasonablePhysicalRange
    \/ InferTime
    \/ CheckTime
    \/ CDFtBeginWindows
    \/ CDFtWindow
    \/ CDFtReturn
    \/ CDFtApplyOnWindow
    \/ QDMBeginWindows
    \/ QDMWindow
    \/ QDMReturn
    \/ QDMApplyOnWithinYearWindow
    \/ ISIMIPStep1
    \/ ISIMIPStep2
    \/ ISIMIPStep3
    \/ ISIMIPStep4
    \/ ISIMIPStep5
    \/ ISIMIPStep6
    \/ ISIMIPStep7
    \/ ISIMIPStep8

Spec == Init /\ [][Next]_vars

(***************************************************************************)
(* Properties of apply_location.                                           *)
(***************************************************************************)
\* whether the call iterates a running window in apply_location
RunningWindowMode ==
    IF debiaser = "QDM" THEN cfg.running_window_mode_within_year
    ELSE cfg.running_window_mode

\* C1: a successful apply_location of CDFt, QuantileDeltaMapping or ISIMIP,
\* in every combination of running-window and by-month modes, returns a
\* series with exactly as many elements as cm_future
C1_ResultAsLongAsCmFuture ==
    pc = "done" => Len(result) = Len(cm_future)

C1_Witness ==
    /\ pc = "done" /\ debiaser = "CDFt"
    /\ cfg.running_window_mode /\ cfg.apply_by_month
    /\ Len(obs) # Len(cm_future) /\ Len(cm_hist) # Len(cm_future)
    /\ Len(result) = Len(cm_future)

PosIn(m, i) == CHOOSE k \in 1..Len(m) : m[k] = i

\* what the debiaser computes on the context of the chunk d
ChunkResult(d) ==
    IF debiaser = "CDFt"
    THEN CDFt_apply_on_window(cfg, obs, cm_hist,
             Gather(cm_future, d.in_cm_future), time_obs, time_cm_hist,
             Gather(time_cm_future, d.in_cm_future), np_random).val
    ELSE IF debiaser = "QDM"
    THEN QDM_apply_on_within_year_window(cfg, Gather(obs, d.in_obs),
             Gather(cm_hist, d.in_cm_hist), Gather(cm_future, d.in_cm_future),
             Gather(year(time_cm_future), d.in_cm_future)).val
    ELSE ISIMIP_apply_on_window(cfg, Gather(work.obs_hist, d.in_obs),
             Gather(work.cm_hist, d.in_cm_hist),
             Gather(work.cm_future, d.in_cm_future),
             Gather(year(time_obs), d.in_obs),
             Gather(year(time_cm_hist), d.in_cm_hist),
             Gather(year(time_cm_future), d.in_cm_future), np_random).val

\* the chunk just assigned wrote, at every index i of its target, the value
\* computed for cm_future[i] within the chunk's context
LastChunkWrittenInPlace ==
    LET e == log[Len(log)]
        out == ChunkResult(e.d)
    IN  /\ e.out = out
        /\ \A k \in 1..Len(e.d.target) :
              LET i == e.d.target[k] IN
              /\ i \in Range(e.d.in_cm_future)
              /\ debiased_cm_future[i] = out[PosIn(e.d.in_cm_future, i)]

\* the result out of CDFt._apply_on_window on the context f with dates t_f
\* holds, at every position, the value computed for that position within
\* its calendar month
MonthsWrittenInPlace(out, f, t_f) ==
    /\ \A p \in 1..Len(f) : \E m \in 1..MonthsInYear : p \in Range(MonthMask(t_f, m))
    /\ \A m \in 1..MonthsInYear :
        LET mask == MonthMask(t_f, m)
            corrected == CDFt_apply_on_month_and_window(cfg,
                            Gather(obs, MonthMask(time_obs, m)),
                            Gather(cm_hist, MonthMask(time_cm_hist, m)),
                            Gather(f, mask), np_random).val
        IN  \A q \in 1..Len(mask) : out[mask[q]] = corrected[q]

\* the innermost chunks of a QuantileDeltaMapping context with the years
\* given: the windows over the years, or the context as a whole; mask holds
\* the members of a chunk and to_debias the positions it debiases
InnermostChunks(years) ==
    IF cfg.running_window_mode_over_years_of_cm_future
    THEN LET ws == RunningWindowOverYears_use(years,
                      cfg.running_window_over_years_of_cm_future_length,
                      cfg.running_window_over_years_of_cm_future_step_length)
         IN  [k \in 1..Len(ws) |->
                [mask |-> get_if_in_chosen_years(years, ws[k].years_in_window),
                 to_debias |->
                    Range(get_if_in_chosen_years(years, ws[k].years_to_debias))]]
    ELSE <<[mask |-> All(years), to_debias |-> 1..Len(years)]>>

\* the result out of QuantileDeltaMapping._apply_on_within_year_window on
\* the context o, h, f holds, at every position, the value computed for
\* that position within the window over the years that debiases its year
YearsWrittenInPlace(out, o, h, f, years) ==
    LET chunks == InnermostChunks(years)
        fit_obs == distribution_fit(o).val
        fit_cm_hist == distribution_fit(h).val
    IN  /\ \A p \in 1..Len(f) :
              \E k \in 1..Len(chunks) : p \in chunks[k].to_debias
        /\ \A k \in 1..Len(chunks) :
              LET mask == chunks[k].mask
                  corrected == QDM_apply_debiasing_steps(cfg, Gather(f, mask),
                                   fit_obs, fit_cm_hist).val
              IN  \A q \in 1..Len(mask) :
                      mask[q] \in chunks[k].to_debias =>
                          out[mask[q]] = corrected[q]

TimeMismatch ==
    \/ Len(obs) # Len(time_obs)
    \/ Len(cm_hist) # Len(time_cm_hist)
    \/ Len(cm_future) # Len(time_cm_future)

\* nothing of the iteration has happened and nothing is returned
NothingProcessed ==
    /\ stages = <<>> /\ log = <<>> /\ windows = <<>>
    /\ debiased_cm_future = <<>> /\ writes = <<>> /\ result = <<>>

\* C4: if, after any time inference, one of obs, cm_hist, cm_future differs
\* in length from its time array, apply_location raises before any window,
\* month or stage is processed and returns nothing; the call gets past the
\* validation only with matching lengths
C4_LengthMismatchRaisesFirst ==
    /\ pc \notin {"call", "time", "check", "raised"} => ~TimeMismatch
    /\ error = "time_information" =>
          pc = "raised" /\ TimeMismatch /\ NothingProcessed
    /\ (pc = "raised" /\ error # "physical_range" /\ TimeMismatch) =>
          error = "time_information"

C4_Witness ==
    /\ pc = "raised" /\ error = "time_information" /\ debiaser = "QDM"
    /\ Len(obs) # Len(time_obs) /\ Len(cm_future) = Len(time_cm_future)
    /\ NothingProcessed

\* an element of obs, cm_hist or cm_future lies below lo or above hi
RangeViolated ==
    /\ cfg.reasonable_physical_range.given
    /\ \E x \in Range(obs) \cup Range(cm_hist) \cup Range(cm_future) :
          \/ RLt(x, cfg.reasonable_physical_range.lo)
          \/ RLt(cfg.reasonable_physical_range.hi, x)

\* no date has been synthesized for a time array that was not supplied
NoDateSynthesized ==
    /\ ~time_given.obs => time_obs = <<>>
    /\ ~time_given.cm_hist => time_cm_hist = <<>>
    /\ ~time_given.cm_future => time_cm_future = <<>>

\* C5: ISIMIP.apply_location with reasonable_physical_range = [lo, hi]
\* raises before the time inference, the length check and any stage when an
\* element of obs, cm_hist or cm_future is below lo or above hi; elements
\* equal to lo or hi are accepted, and without a range no range error is
\* raised
C5_RangeCheckedFirst ==
    /\ error = "physical_range" => debiaser = "ISIMIP" /\ RangeViolated
    /\ (debiaser = "ISIMIP" /\ RangeViolated) =>
          /\ pc \in {"call", "raised"}
          /\ pc = "raised" => error = "physical_range"
          /\ warnings = 0 /\ NoDateSynthesized /\ NothingProcessed

C5_Witness ==
    /\ pc = "raised" /\ error = "physical_range"
    /\ ~time_given.cm_future /\ time_cm_future = <<>> /\ warnings = 0
    /\ \E i \in 1..Len(cm_future) :
          cm_future[i] = cfg.reasonable_physical_range.hi
    /\ \E i \in 1..Len(obs) :
          RLt(cfg.reasonable_physical_range.hi, obs[i])

\* the dates t are those of daily samples from a January 1 on
DailyFromJanuaryFirst(t) ==
    /\ Len(t) > 0 => t[1][2] = 1
    /\ \A i \in 1..(Len(t) - 1) :
          t[i + 1] = IF t[i][2] = YearCycle THEN <<t[i][1] + 1, 1>>
                     ELSE <<t[i][1], t[i][2] + 1>>

\* past the time inference of a call that is not rejected for its range
PastTimeInference == pc \notin {"call", "time"} /\ error # "physical_range"

C6_WarnedAndSynthesized ==
    /\ ~PastTimeInference => warnings = 0
    /\ (PastTimeInference /\ AllTimesGiven) => warnings = 0
    /\ (PastTimeInference /\ ~AllTimesGiven) =>
          /\ warnings = 1
          /\ Len(time_obs) = Len(obs) /\ DailyFromJanuaryFirst(time_obs)
          /\ Len(time_cm_hist) = Len(cm_hist)
          /\ DailyFromJanuaryFirst(time_cm_hist)
          /\ Len(time_cm_future) = Len(cm_future)
          /\ DailyFromJanuaryFirst(time_cm_future)
          /\ error # "time_information"

StageAfter(s) ==
    CASE s = "step1" -> {"chunk"}
      [] s = "chunk" -> {"step2"}
      [] s = "step2" -> {"step3"}
      [] s = "step3" -> {"step4"}
      [] s = "step4" -> {"step5"}
      [] s = "step5" -> {"step6"}
      [] s = "step6" -> {"step7"}
      [] s = "step7" -> {"assign"}
      [] s = "assign" -> {"chunk", "step8"}
      [] OTHER -> {}

\* the number of chunks of one ISIMIP.apply_location call
NumberOfChunks ==
    IF cfg.running_window_mode
    THEN ((YearCycle - 1) \div cfg.running_window_step_length) + 1
    ELSE MonthsInYear

\* C7: in ISIMIP.apply_location stage 1 runs once, before the first chunk;
\* every chunk runs the stages 2 to 7 in this order and is then scattered
\* into the output; stage 8 runs once, after the last chunk was scattered;
\* stages 1 and 8 never run inside a chunk
C7_StagesInOrder ==
    debiaser = "ISIMIP" =>
        /\ stages # <<>> => stages[1] = "step1"
        /\ \A k \in 2..Len(stages) : stages[k] # "step1"
        /\ \A k \in 1..(Len(stages) - 1) : stages[k + 1] \in StageAfter(stages[k])
        /\ (\E k \in 1..Len(stages) : stages[k] = "step8") => pc = "done"
        /\ pc = "done" =>
              /\ stages[Len(stages)] = "step8"
              /\ Cardinality({k \in 1..Len(stages) : stages[k] = "chunk"})
                    = NumberOfChunks
              /\ Cardinality({k \in 1..Len(stages) : stages[k] = "assign"})
                    = NumberOfChunks

C7_Witness ==
    /\ pc = "done" /\ debiaser = "ISIMIP" /\ ~cfg.running_window_mode
    /\ Len(stages) = 2 + 8 * MonthsInYear
    /\ stages[Len(stages)] = "step8"

\* in the result out of the context o, h, f, for every element of every
\* innermost chunk, out - f is ppf(tau_t; fit_obs) - ppf(tau_t; fit_cm_hist):
\* tau_t is the thresholded rank of the element within its chunk of f, the
\* fits are those of o and h
QuantileDeltaAdded(out, o, h, f, years) ==
    LET chunks == InnermostChunks(years)
        fit_obs == distribution_fit(o).val
        fit_cm_hist == distribution_fit(h).val
    IN  /\ \A p \in 1..Len(f) :
              \E k \in 1..Len(chunks) : p \in chunks[k].to_debias
        /\ \A k \in 1..Len(chunks) :
              LET mask == chunks[k].mask
                  window == Gather(f, mask)
                  tau_t == threshold_cdf_vals(
                               ecdf(window, window, cfg.ecdf_method),
                               cfg.cdf_threshold)
                  q_obs == distribution_ppf(tau_t, fit_obs)
                  q_cm_hist == distribution_ppf(tau_t, fit_cm_hist)
              IN  \A q \in 1..Len(mask) :
                      mask[q] \in chunks[k].to_debias =>
                          RSub(out[mask[q]], f[mask[q]])
                              = RSub(q_obs[q], q_cm_hist[q])

\* C10: with absolute (additive) trend preservation and censoring off, for
\* every element of every innermost chunk of QuantileDeltaMapping, output
\* minus cm_future is ppf(tau_t; fit_obs) minus ppf(tau_t; fit_cm_hist)
C10_AdditiveTrendPreserved ==
    (debiaser = "QDM" /\ cfg.trend_preservation = "absolute"
        /\ ~cfg.censor_values_to_zero) =>
        /\ (pc = "window" /\ log # <<>>) =>
              LET d == log[Len(log)].d
                  out == log[Len(log)].out
                  f == Gather(cm_future, d.in_cm_future)
              IN  /\ QuantileDeltaAdded(out, Gather(obs, d.in_obs),
                        Gather(cm_hist, d.in_cm_hist), f,
                        Gather(year(time_cm_future), d.in_cm_future))
                  /\ \A k \in 1..Len(d.target) :
                        LET p == PosIn(d.in_cm_future, d.target[k]) IN
                        RSub(debiased_cm_future[d.target[k]],
                             cm_future[d.target[k]]) = RSub(out[p], f[p])
        /\ (pc = "done" /\ ~cfg.running_window_mode_within_year) =>
              QuantileDeltaAdded(result, obs, cm_hist, cm_future,
                                 year(time_cm_future))

C10_Witness ==
    /\ debiaser = "QDM" /\ cfg.trend_preservation = "absolute"
    /\ ~cfg.censor_values_to_zero
    /\ cfg.running_window_mode_within_year
    /\ cfg.running_window_mode_over_years_of_cm_future
    /\ pc = "window" /\ Len(log) = 2
    /\ LET d == log[2].d IN
       /\ Len(d.target) > 1
       /\ \E i, j \in Range(d.target) :
             /\ debiased_cm_future[i] # cm_future[i]
             /\ RSub(debiased_cm_future[i], cm_future[i])
                   # RSub(debiased_cm_future[j], cm_future[j])

(***************************************************************************)
(* CDFt.apply_location without running window and without months, on       *)
(* series of integers of every order, with and without ties, whose dates   *)
(* are given and as long as the series: the quantile mapping of            *)
(* _apply_CDFt_mapping on its own.                                         *)
(***************************************************************************)
IntegerSeries == UNION {[1..n -> 1..MaxVal] : n \in 1..MaxLen}
ShortIntegerSeries == UNION {[1..n -> 1..MaxVal] : n \in 1..(MaxLen - 1)}
Shifted(x, k) == [i \in 1..Len(x) |-> x[i] + k]
Reverse(x) == [i \in 1..Len(x) |-> x[Len(x) + 1 - i]]

MappingInit ==
    /\ debiaser = "CDFt"
    /\ cfg \in {CDFtConfig(ds, FALSE, FALSE, <<17, 9>>) :
                    ds \in {"no_shift", "additive"}}
    /\ \E o \in IntegerSeries \cup {<<1, 2, 3, 4, 5>>} :
       \E h \in {o, Reverse(o), Shifted(o, 1)} :
       \E f \in ShortIntegerSeries
                \cup {o, Reverse(o), Shifted(o, 2), Shifted(Reverse(o), 1)} :
          /\ obs = Reals(o)
          /\ cm_hist = Reals(h)
          /\ cm_future = Reals(f)
          /\ time_obs = create_array_of_consecutive_dates(Len(o))
          /\ time_cm_hist = create_array_of_consecutive_dates(Len(h))
          /\ time_cm_future = create_array_of_consecutive_dates(Len(f))
    /\ time_given = [obs |-> TRUE, cm_hist |-> TRUE, cm_future |-> TRUE]
    /\ pc = "iterate"
    /\ warnings = 0
    /\ work = NoWork
    /\ windows = <<>>
    /\ debiased_cm_future = <<>>
    /\ writes = <<>>
    /\ inner_writes = {}
    /\ log = <<>>
    /\ chunk = NoChunk
    /\ stages = <<>>
    /\ result = <<>>
    /\ error = "none"
    /\ np_random = 0

MappingNext == CDFtApplyOnWindow

MappingSpec == MappingInit /\ [][MappingNext]_vars

\* CDFt maps the whole series at once, without SSR
PlainMapping ==
    /\ debiaser = "CDFt" /\ ~cfg.SSR /\ ~cfg.running_window_mode
    /\ ~cfg.apply_by_month
    /\ cfg.ecdf_method = "linear_interpolation" /\ cfg.iecdf_method = "linear"

\* the values of x are pairwise distinct
Distinct(x) == \A i, j \in 1..Len(x) : x[i] = x[j] => i = j

OneToFive == <<R(1), R(2), R(3), R(4), R(5)>>

\* C8: CDFt with delta_shift = "no_shift", without SSR, running window and
\* months, with the linear_interpolation / linear estimators, returns
\* cm_future unchanged whenever obs, cm_hist and cm_future hold the same
\* distinct values, in any order; so it does for [1, 2, 3, 4, 5]
C8_NoShiftIdentity ==
    (pc = "done" /\ PlainMapping /\ cfg.delta_shift = "no_shift"
        /\ Distinct(obs) /\ Distinct(cm_hist) /\ Distinct(cm_future)
        /\ Range(obs) = Range(cm_hist) /\ Range(obs) = Range(cm_future)) =>
        result = cm_future

C8_Witness ==
    /\ pc = "done" /\ PlainMapping /\ cfg.delta_shift = "no_shift"
    /\ obs = OneToFive /\ cm_hist = OneToFive /\ cm_future = OneToFive
    /\ result = OneToFive

\* cm_hist and cm_future with mean(obs) - mean(cm_hist) added
ShiftedSeries(x) ==
    [i \in 1..Len(x) |-> RAdd(x[i], RSub(Mean(obs), Mean(cm_hist)))]

None == <<>>

\* attrs.validators.in_(["absolute", "relative"]) with the names of the spec
QDM_validate_trend_preservation_by_spec_names(value) ==
    value \in {"additive", "relative"}

\* QuantileDeltaMapping.trend_preservation: attrs.validators.in_
QDM_validate_trend_preservation(value) == value \in {"absolute", "relative"}

\* attrs.validators.gt(0)
validators_gt_0(value) == value > 0

\* RunningWindowOverYears(...) and RunningWindowOverDaysOfYear(...): TRUE
\* when the construction of the window fails
RunningWindow_raises(length, step) ==
    length <= 0 \/ step <= 0 \/ length % 2 = 0 \/ step % 2 = 0

\* CDFt(...): TRUE when the construction raises
CDFt_init_raises(c) ==
    c.running_window_mode
    /\ RunningWindow_raises(c.running_window_length_in_years,
                            c.running_window_step_length_in_years)

\* QuantileDeltaMapping(...): TRUE when the construction raises
QDM_init_raises(c) ==
    \/ ~QDM_validate_trend_preservation(c.trend_preservation)
    \/ ~validators_gt_0(c.running_window_over_years_of_cm_future_length)
    \/ ~validators_gt_0(c.running_window_over_years_of_cm_future_step_length)
    \/ ~validators_gt_0(c.running_window_within_year_length)
    \/ ~validators_gt_0(c.running_window_within_year_step_length)
    \/ (c.running_window_mode_over_years_of_cm_future
        /\ RunningWindow_raises(c.running_window_over_years_of_cm_future_length,
               c.running_window_over_years_of_cm_future_step_length))
    \/ (c.running_window_mode_within_year
        /\ RunningWindow_raises(c.running_window_within_year_length,
               c.running_window_within_year_step_length))

\* QuantileDeltaMapping.__attrs_post_init__: the cdf_threshold left unset
QDM_attrs_post_init(c) ==
    IF c.cdf_threshold = None
    THEN [c EXCEPT !.cdf_threshold =
            Rat(1, c.running_window_within_year_length
                   * c.running_window_over_years_of_cm_future_length + 1)]
    ELSE c

\* ISIMIP(...): TRUE when the construction raises
ISIMIP_init_raises(c) ==
    \/ ~validators_gt_0(c.running_window_length)
    \/ ~validators_gt_0(c.running_window_step_length)
    \/ (c.running_window_mode
        /\ RunningWindow_raises(c.running_window_length,
                                c.running_window_step_length))

\* the keyword arguments of the constructors
WindowValues == {-1, 0, 1, 2, 3}
TrendPreservationValues == {"absolute", "additive", "relative", "multiplicative"}

CDFtKwargs ==
    {CDFtConfig("additive", TRUE, rw, <<l, s>>) :
        rw \in BOOLEAN, l \in WindowValues, s \in WindowValues}

QDMKwargs ==
    {[QDMConfig(tp, FALSE, wy, <<3, 1>>, oy, <<1, 1>>) EXCEPT
        !.running_window_within_year_length = dl,
        !.running_window_within_year_step_length = ds,
        !.running_window_over_years_of_cm_future_length = yl,
        !.running_window_over_years_of_cm_future_step_length = ys,
        !.cdf_threshold = None] :
        tp \in TrendPreservationValues, wy \in BOOLEAN, oy \in BOOLEAN,
        dl \in WindowValues, ds \in {1, 2}, yl \in WindowValues, ys \in {0, 1}}

ISIMIPKwargs ==
    {ISIMIPConfig(rw, <<l, s>>, NoRange, FALSE) :
        rw \in BOOLEAN, l \in WindowValues, s \in WindowValues}

ConstructInit ==
    /\ debiaser \in {"CDFt", "QDM", "ISIMIP"}
    /\ cfg \in (IF debiaser = "CDFt" THEN CDFtKwargs
                ELSE IF debiaser = "QDM" THEN QDMKwargs ELSE ISIMIPKwargs)
    /\ obs = Reals(<<1, 3>>)
    /\ cm_hist = Reals(<<2, 3>>)
    /\ cm_future = Reals(<<2, 1, 3>>)
    /\ time_obs = <<>>
    /\ time_cm_hist = <<>>
    /\ time_cm_future = <<>>
    /\ time_given = [obs |-> FALSE, cm_hist |-> FALSE, cm_future |-> FALSE]
    /\ pc = "new"
    /\ warnings = 0
    /\ work = NoWork
    /\ windows = <<>>
    /\ debiased_cm_future = <<>>
    /\ writes = <<>>
    /\ inner_writes = {}
    /\ log = <<>>
    /\ chunk = NoChunk
    /\ stages = <<>>
    /\ result = <<>>
    /\ error = "none"
    /\ np_random = 0

call == <<obs, cm_hist, cm_future, time_given>>

Constructed(c) ==
    /\ cfg' = c
    /\ pc' = "constructed"
    /\ UNCHANGED <<result, error>>

\* CDFt(**kwargs)
CDFtConstruct ==
    /\ pc = "new" /\ debiaser = "CDFt"
    /\ IF CDFt_init_raises(cfg)
       THEN Raise("configuration") /\ UNCHANGED cfg
       ELSE Constructed(cfg)
    /\ UNCHANGED <<debiaser, call, times, warnings, work, loop, chunk, stages>>
    /\ UNCHANGED np_random

\* QuantileDeltaMapping(**kwargs)
QDMConstruct ==
    /\ pc = "new" /\ debiaser = "QDM"
    /\ IF QDM_init_raises(cfg)
       THEN Raise("configuration") /\ UNCHANGED cfg
       ELSE Constructed(QDM_attrs_post_init(cfg))
    /\ UNCHANGED <<debiaser, call, times, warnings, work, loop, chunk, stages>>
    /\ UNCHANGED np_random

\* ISIMIP(**kwargs)
ISIMIPConstruct ==
    /\ pc = "new" /\ debiaser = "ISIMIP"
    /\ IF ISIMIP_init_raises(cfg)
       THEN Raise("configuration") /\ UNCHANGED cfg
       ELSE Constructed(cfg)
    /\ UNCHANGED <<debiaser, call, times, warnings, work, loop, chunk, stages>>
    /\ UNCHANGED np_random

\* self._apply_debiasing_steps(cm_future, fit_obs, fit_cm_hist) on a
\* constructed instance, with the trend_preservation the call finds in it
QDMApplyDebiasingSteps ==
    /\ pc = "constructed" /\ debiaser = "QDM"
    /\ \E tp \in TrendPreservationValues :
        LET self == [cfg EXCEPT !.trend_preservation = tp]
            r == QDM_apply_debiasing_steps(self, cm_future,
                    distribution_fit(obs).val, distribution_fit(cm_hist).val)
        IN  /\ cfg' = self
            /\ IF r.ok
               THEN result' = r.val /\ pc' = "stepped" /\ UNCHANGED error
               ELSE Raise("trend_preservation")
    /\ UNCHANGED <<debiaser, call, times, warnings, work, loop, chunk, stages>>
    /\ UNCHANGED np_random

ConstructNext ==
    \/ CDFtConstruct
    \/ QDMConstruct
    \/ ISIMIPConstruct
    \/ QDMApplyDebiasingSteps

ConstructSpec == ConstructInit /\ [][ConstructNext]_vars

(***************************************************************************)
(* C11  QuantileDeltaMapping accepts exactly the trend_preservation values *)
(* of its validator.                                                       *)
(***************************************************************************)
QDMWindowsValid ==
    /\ ~RunningWindow_raises(cfg.running_window_over_years_of_cm_future_length,
            cfg.running_window_over_years_of_cm_future_step_length)
    /\ ~RunningWindow_raises(cfg.running_window_within_year_length,
            cfg.running_window_within_year_step_length)

RaisedAtConstruction == pc = "raised" /\ error = "configuration"
RaisedAtCallTime == pc = "raised" /\ error = "trend_preservation"
PastConstruction == pc \in {"constructed", "stepped"} \/ RaisedAtCallTime

\* the claim for a set of accepted names: construction succeeds with each of
\* them (the other attributes being valid) and fails with every other value;
\* the debiasing steps return with the known values and raise otherwise
TrendPreservationAccepted(names) ==
    debiaser = "QDM" =>
        /\ pc = "constructed" => cfg.trend_preservation \in names
        /\ RaisedAtConstruction /\ QDMWindowsValid
               => cfg.trend_preservation \notin names
        /\ pc = "stepped" => cfg.trend_preservation \in names
        /\ RaisedAtCallTime => cfg.trend_preservation \notin names

\* C11 as stated: QuantileDeltaMapping accepts exactly "additive" and
\* "relative" at construction, and _apply_debiasing_steps raises for every
\* other value
C11_AcceptsAdditiveAndRelative ==
    TrendPreservationAccepted({"additive", "relative"})

\* C11, amended: QuantileDeltaMapping accepts exactly "absolute" and
\* "relative" at construction, every other value ("additive" included) is an
\* error at construction, and _apply_debiasing_steps raises at call time for
\* every value that is not one of the two
C11_AcceptsAbsoluteAndRelative ==
    TrendPreservationAccepted({"absolute", "relative"})

\* the construction with "additive" has failed, all windows being valid
C11_Witness ==
    /\ debiaser = "QDM"
    /\ RaisedAtConstruction
    /\ QDMWindowsValid
    /\ cfg.trend_preservation = "additive"

(***************************************************************************)
(* C14  Even or non-positive running-window lengths and steps.             *)
(***************************************************************************)
OddAndPositive(value) == value > 0 /\ value % 2 = 1

\* the running-window lengths and step lengths of the configuration
WindowParameters ==
    IF debiaser = "CDFt"
    THEN {cfg.running_window_length_in_years,
          cfg.running_window_step_length_in_years}
    ELSE IF debiaser = "QDM"
    THEN {cfg.running_window_over_years_of_cm_future_length,
          cfg.running_window_over_years_of_cm_future_step_length,
          cfg.running_window_within_year_length,
          cfg.running_window_within_year_step_length}
    ELSE {cfg.running_window_length, cfg.running_window_step_length}

\* C14 as stated: a debiaser is constructed only if every running-window
\* length and step handed to it is odd and positive, whether or not the
\* running-window mode the parameter belongs to is enabled
C14_EvenOrNonPositiveWindowFatal ==
    pc = "constructed" => \A value \in WindowParameters : OddAndPositive(value)

(***************************************************************************)
(* ISIMIP.step6 on its own, for a variable with a lower threshold, an      *)
(* upper threshold or both, on sorted and unsorted series of integers      *)
(* that lie on and between the thresholds.                                 *)
(***************************************************************************)
Finite(n) == [inf |-> 0, v |-> R(n)]

IsSorted(x) == \A i \in 1..(Len(x) - 1) : x[i] <= x[i + 1]
SortedIntegerSeries == {x \in IntegerSeries : IsSorted(x)}
SortedShortIntegerSeries == {x \in ShortIntegerSeries : IsSorted(x)}

\* the thresholds are the least and the largest value of the series, the
\* bounds lie one beyond them
Step6Config(sides, adjust) ==
    [ISIMIPConfig(FALSE, <<31, 1>>, NoRange, FALSE) EXCEPT
        !.lower_bound = IF "lower" \in sides THEN Finite(0) ELSE NegInf,
        !.lower_threshold = IF "lower" \in sides THEN Finite(1) ELSE NegInf,
        !.upper_threshold = IF "upper" \in sides THEN Finite(MaxVal) ELSE PosInf,
        !.upper_bound = IF "upper" \in sides THEN Finite(MaxVal + 1) ELSE PosInf,
        !.adjust_frequencies_of_values_beyond_thresholds = adjust]

Step6Configs ==
    {Step6Config(sides, adjust) :
        sides \in {{"lower"}, {"upper"}, {"lower", "upper"}},
        adjust \in BOOLEAN}

\* the pseudo future observations: some between the thresholds, or none
Step6ObsFuture == {<<Rat(3, 2), Rat(5, 2)>>, <<R(1)>>}

Step6Init ==
    /\ debiaser = "ISIMIP"
    /\ cfg \in Step6Configs
    /\ \E o \in SortedIntegerSeries :
       \E h \in SortedShortIntegerSeries :
       \E f \in IntegerSeries :
       \E p \in Step6ObsFuture :
          /\ obs = Reals(o)
          /\ cm_hist = Reals(h)
          /\ cm_future = Reals(f)
          /\ chunk = [NoChunk EXCEPT !.obs_hist = Reals(o), !.cm_hist = Reals(h),
                         !.cm_future = Reals(f), !.obs_future = p]
    /\ time_obs = <<>>
    /\ time_cm_hist = <<>>
    /\ time_cm_future = <<>>
    /\ time_given = [obs |-> FALSE, cm_hist |-> FALSE, cm_future |-> FALSE]
    /\ pc = "step6"
    /\ warnings = 0
    /\ work = NoWork
    /\ windows = <<>>
    /\ debiased_cm_future = <<>>
    /\ writes = <<>>
    /\ inner_writes = {}
    /\ log = <<>>
    /\ stages = <<>>
    /\ result = <<>>
    /\ error = "none"
    /\ np_random = 0

Step6Next == ISIMIPStep6

Step6Spec == Step6Init /\ [][Step6Next]_vars

\* step 6 has run on the arrays obs, cm_hist and cm_future
Step6Ran == debiaser = "ISIMIP" /\ stages = <<"step6">>
Step6Returned == Step6Ran /\ pc = "step7"

\* the sides of the variable that have a threshold
Step6Sides ==
    {side \in {"lower", "upper"} :
        IF side = "lower" THEN ISIMIP_has_lower_threshold(cfg)
        ELSE ISIMIP_has_upper_threshold(cfg)}

\* the proportion of the values of x beyond the threshold of a side
P(side, x) ==
    ISIMIP_step6_calculate_percent_values_beyond_threshold(
        ISIMIP_get_mask_for_values_beyond_threshold(cfg, side, x), x)

\* C20: for proportions P_obs_hist, P_cm_hist and P_cm_future in [0, 1],
\* _step6_get_P_obs_future divides by no zero and returns a value in [0, 1],
\* so that the number of entries to force to a bound, before any scaling,
\* is an integer in 0..n
C20_PObsFutureIsAProportion ==
    Step6Ran /\ cfg.adjust_frequencies_of_values_beyond_thresholds =>
        \A side \in Step6Sides :
            LET r == ISIMIP_step6_get_P_obs_future(
                         P(side, obs), P(side, cm_hist), P(side, cm_future))
                nr == ISIMIP_step6_get_nr_of_entries_to_set_to_bound(
                          cfg, side, obs, cm_hist, cm_future)
            IN  /\ r.ok
                /\ RLe(R(0), r.val) /\ RLe(r.val, R(1))
                /\ nr.ok
                /\ nr.val \in 0..Len(cm_future)

\* step 6 has run with proportions that take the last formula of
\* _step6_get_P_obs_future on the lower side and the third on the upper side
C20_Witness ==
    /\ Step6Ran /\ cfg.adjust_frequencies_of_values_beyond_thresholds
    /\ Step6Sides = {"lower", "upper"}
    /\ P("lower", cm_hist) = Rat(1, 2) /\ P("lower", obs) = Rat(1, 3)
    /\ P("lower", cm_future) = Rat(2, 3)
    /\ P("upper", cm_hist) = R(0) /\ P("upper", obs) = Rat(2, 3)
    /\ P("upper", cm_future) = Rat(1, 3)

\* every value of x is at or below the lower threshold
AllBeyondLowerThreshold(x) ==
    Len(ISIMIP_get_mask_for_values_beyond_lower_threshold(cfg, x)) = Len(x)

\* the entries of the k lowest ranks of cm_future
LowestRanks(k) == {Argsort(cm_future)[j] : j \in 1..k}

\* C12: with adjust_frequencies_of_values_beyond_thresholds, when every value
\* of obs_hist and of cm_hist is at or below the lower threshold, step 6
\* forces round(n * P_cm_future) entries to the lower bound, these are the
\* entries of lowest rank, and each of them equals lower_bound in the
\* returned series
C12_FrequencyFollowsCmFuture ==
    /\ Step6Returned
    /\ cfg.adjust_frequencies_of_values_beyond_thresholds
    /\ ISIMIP_has_lower_threshold(cfg)
    /\ AllBeyondLowerThreshold(obs) /\ AllBeyondLowerThreshold(cm_hist)
    => LET n == Len(cm_future)
           k == Round(RMul(R(n), P("lower", cm_future)))
           nr == ISIMIP_step6_nr_of_entries(cfg, Sort(obs), Sort(cm_hist),
                                            Sort(cm_future))
       IN  /\ nr.val[1] = k
           /\ Len(chunk.cm_future) = n
           /\ \A i \in 1..n :
                i \in LowestRanks(k) =>
                    chunk.cm_future[i] = BoundValue(cfg.lower_bound)

\* step 6 has returned a series with a forced and an unforced entry, for
\* unsorted cm_future
C12_Witness ==
    /\ Step6Returned
    /\ cfg.adjust_frequencies_of_values_beyond_thresholds
    /\ ISIMIP_has_lower_threshold(cfg)
    /\ AllBeyondLowerThreshold(obs) /\ AllBeyondLowerThreshold(cm_hist)
    /\ cm_future = Reals(<<2, 1, 1>>)
    /\ chunk.cm_future[2] = BoundValue(cfg.lower_bound)
    /\ chunk.cm_future[1] # BoundValue(cfg.lower_bound)

\* the numbers of entries that step 6 computed for obs, cm_hist and cm_future
Step6Numbers ==
    ISIMIP_step6_nr_of_entries(cfg, Sort(obs), Sort(cm_hist), Sort(cm_future))

\* more entries are to be forced to the bounds than cm_future has
Step6Scales ==
    /\ Step6Ran /\ Step6Numbers.ok
    /\ Step6Numbers.unscaled[1] + Step6Numbers.unscaled[2] > Len(cm_future)

\* C19: when the numbers of entries to force to the lower and to the upper
\* bound add up to more than n, both are scaled by the one factor
\* n / (lower + upper) of the unscaled numbers, after which they add up to
\* at most n and no entry is forced to both bounds
C19_ScaledByOneFactor ==
    Step6Scales =>
        LET nr == Step6Numbers
            sorted == Sort(cm_future)
        IN  /\ nr.val = scale_nr_of_entries_by_one_factor(
                            nr.unscaled[1], nr.unscaled[2], Len(cm_future))
            /\ nr.val[1] + nr.val[2] <= Len(cm_future)
            /\ Range(ISIMIP_step6_get_mask_for_entries_to_set_to_lower_bound(
                         nr.val[1], sorted))
               \cap Range(ISIMIP_step6_get_mask_for_entries_to_set_to_upper_bound(
                         nr.val[2], sorted)) = {}

\* the parts of C19 on their own
C19_SameFactor ==
    Step6Scales =>
        Step6Numbers.val = scale_nr_of_entries_by_one_factor(
            Step6Numbers.unscaled[1], Step6Numbers.unscaled[2], Len(cm_future))
C19_AtMostN ==
    Step6Scales => Step6Numbers.val[1] + Step6Numbers.val[2] <= Len(cm_future)

(***************************************************************************)
(* ISIMIP.step3 on its own, with detrending, on a chunk of cm_future       *)
(* whose samples lie in two or more of NYears + 1 years.                   *)
(***************************************************************************)
Step3Configs ==
    {[ISIMIPConfig(FALSE, <<31, 1>>, NoRange, FALSE) EXCEPT
         !.detrending = TRUE, !.trend_removal_with_significance_test = test] :
        test \in BOOLEAN}

\* the years of n samples in the order of time, not all in one year
YearSeries(n) ==
    {y \in [1..n -> FirstYear..(FirstYear + NYears)] : IsSorted(y) /\ y[1] # y[n]}

DatesInYears(y) == [i \in 1..Len(y) |-> <<y[i], i>>]

Step3Hist == {<<1, 3>>, <<2, 2>>}

Step3Init ==
    /\ debiaser = "ISIMIP"
    /\ cfg \in Step3Configs
    /\ \E o \in Step3Hist, h \in Step3Hist :
       \E f \in IntegerSeries :
       \E y \in YearSeries(Len(f)) :
          /\ obs = Reals(o)
          /\ cm_hist = Reals(h)
          /\ cm_future = Reals(f)
          /\ time_obs = DatesInYears(<<FirstYear, FirstYear + 1>>)
          /\ time_cm_hist = DatesInYears(<<FirstYear, FirstYear + 1>>)
          /\ time_cm_future = DatesInYears(y)
          /\ chunk = [NoChunk EXCEPT
                         !.d = [target |-> All(f), in_obs |-> All(o),
                                in_cm_hist |-> All(h), in_cm_future |-> All(f),
                                sel |-> All(f)],
                         !.obs_hist = Reals(o), !.cm_hist = Reals(h),
                         !.cm_future = Reals(f)]
    /\ time_given = [obs |-> TRUE, cm_hist |-> TRUE, cm_future |-> TRUE]
    /\ pc = "step3"
    /\ warnings = 0
    /\ work = NoWork
    /\ windows = <<>>
    /\ debiased_cm_future = <<>>
    /\ writes = <<>>
    /\ inner_writes = {}
    /\ log = <<>>
    /\ stages = <<>>
    /\ result = <<>>
    /\ error = "none"
    /\ np_random = 0

Step3Next == ISIMIPStep3

Step3Spec == Step3Init /\ [][Step3Next]_vars

\* step 3 has run with detrending on obs, cm_hist and cm_future
Step3Ran ==
    debiaser = "ISIMIP" /\ stages = <<"step3">> /\ pc = "step4" /\ cfg.detrending

\* the series x of the years of time, detrended without regard to the
\* significance test, and the outcome of the test
Regression(x, time) ==
    LET g == get_years_and_yearly_means(x, year(time))
    IN  linregress(Reals(g.unique_years), g.annual_means)
Detrended(x, time) ==
    LET g == get_years_and_yearly_means(x, year(time))
    IN  [i \in 1..Len(x) |->
            RSub(x[i], RMul(Regression(x, time).slope,
                            RSub(R(year(time)[i]), Mean(Reals(g.unique_years)))))]

\* what C13 lets step 3 return for the series x
TrendRemovedAsStated(x, time) ==
    IF cfg.trend_removal_with_significance_test
       /\ ~Regression(x, time).pvalue_below_005
    THEN x
    ELSE Detrended(x, time)

\* C13: in step 3 with detrending the removed trend is zero if
\* trend_removal_with_significance_test is on and the p-value of the
\* regression is at least 0.05; in every other case, also whenever the
\* significance test is off, slope * (year - mean(year)) is subtracted from
\* every sample
C13_TrendRemovedUnlessTestedInsignificant ==
    Step3Ran =>
        /\ chunk.obs_hist = TrendRemovedAsStated(obs, time_obs)
        /\ chunk.cm_hist = TrendRemovedAsStated(cm_hist, time_cm_hist)
        /\ chunk.cm_future = TrendRemovedAsStated(cm_future, time_cm_future)

\* the claim with the significance test on
C13_WithSignificanceTest ==
    Step3Ran /\ cfg.trend_removal_with_significance_test =>
        /\ chunk.obs_hist = TrendRemovedAsStated(obs, time_obs)
        /\ chunk.cm_hist = TrendRemovedAsStated(cm_hist, time_cm_hist)
        /\ chunk.cm_future = TrendRemovedAsStated(cm_future, time_cm_future)

\* with the significance test off, step 3 returns the series as they were
C13_NothingRemovedWithoutTest ==
    Step3Ran /\ ~cfg.trend_removal_with_significance_test =>
        /\ chunk.obs_hist = obs
        /\ chunk.cm_hist = cm_hist
        /\ chunk.cm_future = cm_future

\* a trend that is significant and one that is not have been met
C13_SignificantTrend ==
    /\ Step3Ran /\ cfg.trend_removal_with_significance_test
    /\ Cardinality(Range(year(time_cm_future))) = 3
    /\ Regression(cm_future, time_cm_future).pvalue_below_005
    /\ chunk.cm_future # cm_future
C13_InsignificantTrend ==
    /\ Step3Ran /\ cfg.trend_removal_with_significance_test
    /\ ~Regression(cm_future, time_cm_future).pvalue_below_005
    /\ Regression(cm_future, time_cm_future).slope # R(0)

(***************************************************************************)
(* QuantileDeltaMapping.apply_location with both running windows, on       *)
(* series of whole years and on series whose first year has samples in     *)
(* one part of the year only, with steps of one and of three years.        *)
(***************************************************************************)
NestingConfigs ==
    {QDMConfig(tp, FALSE, TRUE, dw, TRUE, yw) :
        tp \in {"absolute", "relative"}, dw \in DayWindows, yw \in YearWindows}

\* one sample early in the first year, then one sample in the middle of
\* each of the NYears + 1 years that follow
PartialYears(a) ==
    [vals |-> [i \in 1..(NYears + 2) |-> R(1 + ((a * i) % 11))],
     time |-> [i \in 1..(NYears + 2) |->
                <<FirstYear + (i - 1), IF i = 1 THEN 3 ELSE 200>>]]

NestingFutureChoices ==
    {LongSeries(NYears, 7), LongSeries(NYears, 3), PartialYears(1),
     PartialYears(3), ShortSeries(MaxLen, 1, MaxVal)}

NestingInit ==
    /\ debiaser = "QDM"
    /\ cfg \in NestingConfigs
    /\ \E o \in ObsChoices, h \in HistChoices, f \in NestingFutureChoices :
        /\ obs = o.vals
        /\ cm_hist = h.vals
        /\ cm_future = f.vals
        /\ time_obs = o.time
        /\ time_cm_hist = h.time
        /\ time_cm_future = f.time
    /\ time_given = [obs |-> TRUE, cm_hist |-> TRUE, cm_future |-> TRUE]
    /\ pc = "iterate"
    /\ warnings = 0
    /\ work = NoWork
    /\ windows = <<>>
    /\ debiased_cm_future = <<>>
    /\ writes = <<>>
    /\ inner_writes = {}
    /\ log = <<>>
    /\ chunk = NoChunk
    /\ stages = <<>>
    /\ result = <<>>
    /\ error = "none"
    /\ np_random = 0

NestingNext ==
    \/ QDMBeginWindows
    \/ QDMWindow
    \/ QDMReturn

NestingSpec == NestingInit /\ [][NestingNext]_vars

\* the other order of nesting: the windows over the years are laid over the
\* years of the whole of cm_future, and the windows within the year over the
\* samples of each of them; element i is debiased together with the samples
\* that lie in both windows around it
OverYearsFirst ==
    LET years == year(time_cm_future)
        days == day_of_year(time_cm_future)
        ws == RunningWindowOverYears_use(years,
                cfg.running_window_over_years_of_cm_future_length,
                cfg.running_window_over_years_of_cm_future_step_length)
        ds == RunningWindowOverDaysOfYear_use(days, years,
                cfg.running_window_within_year_step_length)
        w(i) == ws[CHOOSE k \in 1..Len(ws) : years[i] \in ws[k].years_to_debias]
        center(i) ==
            ds[CHOOSE k \in 1..Len(ds) : i \in Range(ds[k].indices)].window_center
        in_window(time, i) ==
            get_indices_vals_in_window(day_of_year(time), center(i),
                                       cfg.running_window_within_year_length)
        context(i) ==
            SetToSortedSeq({j \in Range(in_window(time_cm_future, i)) :
                                years[j] \in w(i).years_in_window})
        fit_obs(i) == distribution_fit(Gather(obs, in_window(time_obs, i)))
        fit_cm_hist(i) == distribution_fit(Gather(cm_hist, in_window(time_cm_hist, i)))
        steps(i) == QDM_apply_debiasing_steps(cfg, Gather(cm_future, context(i)),
                                              fit_obs(i).val, fit_cm_hist(i).val)
    IN  [ok |-> \A i \in 1..Len(cm_future) :
                    fit_obs(i).ok /\ fit_cm_hist(i).ok /\ steps(i).ok,
         val |-> [i \in 1..Len(cm_future) |-> steps(i).val[PosIn(context(i), i)]]]

BothWindows ==
    /\ debiaser = "QDM"
    /\ cfg.running_window_mode_within_year
    /\ cfg.running_window_mode_over_years_of_cm_future

\* every window within the year holds samples of cm_future of its first
\* and of its last year
EveryWindowSpansTheYears ==
    LET years == year(time_cm_future)
        ds == RunningWindowOverDaysOfYear_use(day_of_year(time_cm_future), years,
                cfg.running_window_within_year_step_length)
    IN  \A k \in 1..Len(ds) :
            LET in_window == get_indices_vals_in_window(
                    day_of_year(time_cm_future), ds[k].window_center,
                    cfg.running_window_within_year_length)
            IN  /\ SetMin(Range(years)) \in Range(Gather(years, in_window))
                /\ SetMax(Range(years)) \in Range(Gather(years, in_window))

RandomConfig(impute, randomize) ==
    [ISIMIPConfig(TRUE, <<365, 183>>, NoRange, TRUE) EXCEPT
        !.impute_missing_values = impute,
        !.lower_bound = IF randomize THEN Finite(0) ELSE NegInf,
        !.lower_threshold = IF randomize THEN Finite(1) ELSE NegInf]

RandomConfigs ==
    {RandomConfig(impute, randomize) : impute, randomize \in BOOLEAN}
    \cup {CDFtConfig("additive", FALSE, rw, <<3, 1>>) : rw \in BOOLEAN}
    \cup {QDMConfig("absolute", FALSE, wy, <<365, 183>>, FALSE, <<3, 1>>) :
            wy \in BOOLEAN}

\* series with values at the lower threshold and with missing values
RandomSeries ==
    {<<R(1), R(2), R(3)>>, <<R(1), R(1), R(2)>>, <<R(3), NaN, R(1)>>,
     <<NaN, R(2), NaN>>}

HasNaN(x) == \E i \in 1..Len(x) : x[i] = NaN

RandomInit ==
    /\ debiaser \in {"CDFt", "QDM", "ISIMIP"}
    /\ cfg \in {c \in RandomConfigs :
                    IF debiaser = "CDFt" THEN "SSR" \in DOMAIN c
                    ELSE IF debiaser = "QDM" THEN "cdf_threshold" \in DOMAIN c
                    ELSE "impute_missing_values" \in DOMAIN c}
    /\ \E o \in RandomSeries, h \in RandomSeries, f \in RandomSeries,
          mode \in {"given", "none"} :
        /\ (HasNaN(o) \/ HasNaN(h) \/ HasNaN(f)) =>
                (debiaser = "ISIMIP" /\ cfg.impute_missing_values)
        /\ obs = o
        /\ cm_hist = h
        /\ cm_future = f
        /\ time_obs = Supplied(mode, "obs", ShortDates(Len(o)))
        /\ time_cm_hist = Supplied(mode, "cm_hist", ShortDates(Len(h)))
        /\ time_cm_future = Supplied(mode, "cm_future", ShortDates(Len(f)))
        /\ time_given = [obs |-> IsGiven(mode, "obs"),
                         cm_hist |-> IsGiven(mode, "cm_hist"),
                         cm_future |-> IsGiven(mode, "cm_future")]
    /\ pc = IF debiaser = "ISIMIP" THEN "call" ELSE "time"
    /\ warnings = 0
    /\ work = NoWork
    /\ windows = <<>>
    /\ debiased_cm_future = <<>>
    /\ writes = <<>>
    /\ inner_writes = {}
    /\ log = <<>>
    /\ chunk = NoChunk
    /\ stages = <<>>
    /\ result = <<>>
    /\ error = "none"
    /\ np_random \in 0..(GeneratorPeriod - 1)

RandomSpec == RandomInit /\ [][Next]_vars


\* the output of the first window of the call, had no call run before it in
\* the process
FirstWindowInFreshProcess ==
    ISIMIP_apply_on_window(cfg, Gather(obs, log[1].d.in_obs),
        Gather(cm_hist, log[1].d.in_cm_hist),
        Gather(cm_future, log[1].d.in_cm_future),
        Gather(year(time_obs), log[1].d.in_obs),
        Gather(year(time_cm_hist), log[1].d.in_cm_hist),
        Gather(year(time_cm_future), log[1].d.in_cm_future), 0).val

\* C16: the draws come from a generator handed in through the configuration
\* or the call, and not from the state of the process: a call has no
\* generator among its inputs, so calls with equal inputs return equal
\* outputs whatever calls ran before them, and the first window of a call
\* gives what it gives in a process where no call ran before
C16_OutputIndependentOfEarlierCalls ==
    (debiaser = "ISIMIP" /\ log # <<>>) => log[1].out = FirstWindowInFreshProcess

\* C17: apply_location leaves obs, cm_hist and cm_future of the caller as
\* they are in every step, also in the steps 2 and 4 of ISIMIP that assign
\* in place to the arrays they are given, and ISIMIP returns
\* debiased_cm_future, the array that the call has allocated
C17_CallerArraysUnchanged ==
    [][/\ obs' = obs
       /\ cm_hist' = cm_hist
       /\ cm_future' = cm_future
       /\ (debiaser = "ISIMIP" /\ pc # "done" /\ pc' = "done")
            => result' = debiased_cm_future]_vars

\* a call has returned in which step 2 has imputed a missing value of obs
\* and step 4 has randomized a value of cm_future at the lower threshold
C17_Witness ==
    /\ pc = "done" /\ debiaser = "ISIMIP"
    /\ cfg.impute_missing_values /\ HasNaN(obs)
    /\ ISIMIP_has_lower_bound(cfg) /\ ISIMIP_has_lower_threshold(cfg)
    /\ \E i \in 1..Len(cm_future) : cm_future[i] = R(1)
    /\ \E k \in 1..Len(stages) : stages[k] = "step4"
    /\ ~HasNaN(result)

\* C18: no attribute of the debiaser changes in any step of apply_location
C18_AttributesUnchanged == [][cfg' = cfg]_vars

\* a call that has read the attributes in some windows and has then raised
C18_Witness ==
    /\ pc = "raised" /\ error = "empty_sample" /\ log # <<>>


(***************************************************************************)
(* ISIMIP.step4 on one chunk, for configurations that set the bounds and   *)
(* thresholds of a side, leave them unbounded, or leave them out.           *)
(***************************************************************************)
\* the attrs defaults of lower_bound, lower_threshold, upper_bound and
\* upper_threshold: np.inf, np.inf, -np.inf, -np.inf
ISIMIP_attrs_defaults_of_bounds(c) ==
    [c EXCEPT !.lower_bound = PosInf, !.lower_threshold = PosInf,
              !.upper_bound = NegInf, !.upper_threshold = NegInf]

\* the bound and the threshold of a side: both set, left unbounded, or one
\* of them alone
LowerSides ==
    {<<Finite(0), Finite(1)>>, <<NegInf, NegInf>>, <<Finite(0), NegInf>>,
     <<NegInf, Finite(1)>>}
UpperSides ==
    {<<Finite(MaxVal + 1), Finite(MaxVal)>>, <<PosInf, PosInf>>,
     <<Finite(MaxVal + 1), PosInf>>}

Step4Configs ==
    {ISIMIP_attrs_defaults_of_bounds(ISIMIPConfig(FALSE, <<31, 1>>, NoRange, FALSE))}
    \cup {[ISIMIPConfig(FALSE, <<31, 1>>, NoRange, FALSE) EXCEPT
              !.lower_bound = l[1], !.lower_threshold = l[2],
              !.upper_bound = u[1], !.upper_threshold = u[2]] :
            l \in LowerSides, u \in UpperSides}

\* series of values from the lower to the upper bound
BoundedSeries == UNION {[1..n -> 0..(MaxVal + 1)] : n \in 1..MaxLen}

Step4Hist == {<<0, 2>>, <<1, MaxVal + 1>>}

Step4Init ==
    /\ debiaser = "ISIMIP"
    /\ cfg \in Step4Configs
    /\ \E o \in Step4Hist, f \in BoundedSeries :
          /\ obs = Reals(o)
          /\ cm_hist = Reals(Reverse(o))
          /\ cm_future = Reals(f)
          /\ time_obs = DatesInYears([i \in 1..Len(o) |-> FirstYear])
          /\ time_cm_hist = DatesInYears([i \in 1..Len(o) |-> FirstYear])
          /\ time_cm_future = DatesInYears([i \in 1..Len(f) |-> FirstYear])
          /\ chunk = [NoChunk EXCEPT
                         !.d = [target |-> All(f), in_obs |-> All(o),
                                in_cm_hist |-> All(o), in_cm_future |-> All(f),
                                sel |-> All(f)],
                         !.obs_hist = Reals(o), !.cm_hist = Reals(Reverse(o)),
                         !.cm_future = Reals(f),
                         !.base = <<"own", "own", "own">>]
    /\ time_given = [obs |-> TRUE, cm_hist |-> TRUE, cm_future |-> TRUE]
    /\ pc = "step4"
    /\ warnings = 0
    /\ work = NoWork
    /\ windows = <<>>
    /\ debiased_cm_future = <<>>
    /\ writes = <<>>
    /\ inner_writes = {}
    /\ log = <<>>
    /\ stages = <<>>
    /\ result = <<>>
    /\ error = "none"
    /\ np_random \in 0..(GeneratorPeriod - 1)

Step4Next == ISIMIPStep4

Step4Spec == Step4Init /\ [][Step4Next]_vars

Step4Ran == stages = <<"step4">>

\* the configuration was constructed without the four bounds and thresholds
BoundsLeftOut == cfg = ISIMIP_attrs_defaults_of_bounds(cfg)

\* step 4 has returned the arrays it was given
Step4ChangedNothing ==
    /\ pc = "step5"
    /\ chunk.obs_hist = obs /\ chunk.cm_hist = cm_hist
    /\ chunk.cm_future = cm_future

\* C21: a configuration constructed without bounds and thresholds is
\* unbounded on both sides: none of the six has_ properties holds, and step 4
\* changes no value
C21_UnboundedWithoutBounds ==
    BoundsLeftOut =>
        /\ ~ISIMIP_has_lower_bound(cfg) /\ ~ISIMIP_has_lower_threshold(cfg)
        /\ ~ISIMIP_has_upper_bound(cfg) /\ ~ISIMIP_has_upper_threshold(cfg)
        /\ ~ISIMIP_has_bound(cfg) /\ ~ISIMIP_has_threshold(cfg)
        /\ Step4Ran => Step4ChangedNothing

\* a configuration that gives the bounds and thresholds as -np.inf and np.inf
\* is unbounded on both sides, and step 4 changes no value
C21_UnboundedWithInfiniteBounds ==
    (cfg.lower_bound = NegInf /\ cfg.lower_threshold = NegInf
     /\ cfg.upper_bound = PosInf /\ cfg.upper_threshold = PosInf) =>
        /\ ~ISIMIP_has_bound(cfg) /\ ~ISIMIP_has_threshold(cfg)
        /\ Step4Ran => Step4ChangedNothing

\* step 4 of a configuration constructed without bounds has raised
C21_StepFourRaises == BoundsLeftOut /\ Step4Ran /\ pc = "raised"


\* step 4 acts on a side that has both its bound and its threshold
Step4ActsOnLowerSide ==
    ISIMIP_has_lower_bound(cfg) /\ ISIMIP_has_lower_threshold(cfg)
Step4ActsOnUpperSide ==
    ISIMIP_has_upper_bound(cfg) /\ ISIMIP_has_upper_threshold(cfg)

\* the value v is at or beyond the threshold of a side that step 4 acts on
RandomizedBelow(v) == Step4ActsOnLowerSide /\ BeyondLowerThreshold(cfg, v)
RandomizedAbove(v) == Step4ActsOnUpperSide /\ BeyondUpperThreshold(cfg, v)

\* y is x with the values at or beyond a threshold replaced by values
\* between the threshold and the bound in the order of rank they had, and
\* with every other value kept
RandomizedFrom(x, y) ==
    /\ Len(y) = Len(x)
    /\ \A i \in 1..Len(x) :
        IF RandomizedBelow(x[i])
        THEN RLe(cfg.lower_bound.v, y[i]) /\ RLe(y[i], cfg.lower_threshold.v)
        ELSE IF RandomizedAbove(x[i])
        THEN RLe(cfg.upper_threshold.v, y[i]) /\ RLe(y[i], cfg.upper_bound.v)
        ELSE y[i] = x[i]
    /\ \A i, j \in 1..Len(x) :
        (/\ RLt(x[i], x[j])
         /\ \/ RandomizedBelow(x[i]) /\ RandomizedBelow(x[j])
            \/ RandomizedAbove(x[i]) /\ RandomizedAbove(x[j])) => RLe(y[i], y[j])

\* C27: step 4 acts on a side only if the bound and the threshold of the
\* side are both set; it replaces the values at or beyond the threshold, the
\* values at the bound among them, by values between threshold and bound
\* that keep the order of rank of the replaced values, and leaves every
\* value strictly between the thresholds as it is
C27_RandomizedBeyondThresholds ==
    (Step4Ran /\ pc = "step5") =>
        /\ RandomizedFrom(obs, chunk.obs_hist)
        /\ RandomizedFrom(cm_hist, chunk.cm_hist)
        /\ RandomizedFrom(cm_future, chunk.cm_future)

\* both sides were randomized, the lower one with two values whose order of
\* rank is not the order of their positions, next to a value between the
\* thresholds
C27_Witness ==
    /\ Step4Ran /\ pc = "step5"
    /\ Step4ActsOnLowerSide /\ Step4ActsOnUpperSide
    /\ cm_future = <<R(1), R(0), R(2)>>
    /\ cm_hist = <<R(MaxVal + 1), R(1)>>
    /\ RLt(chunk.cm_future[2], chunk.cm_future[1])
    /\ chunk.cm_future[3] = R(2)
    /\ chunk.cm_hist[1] # cm_hist[1]

\* a side with its bound alone was left as it was
C27_BoundAlone ==
    /\ Step4Ran /\ pc = "step5"
    /\ ISIMIP_has_lower_bound(cfg) /\ ~ISIMIP_has_lower_threshold(cfg)
    /\ ~Step4ActsOnUpperSide
    /\ cm_future = <<R(0)>> /\ chunk.cm_future = cm_future

(***************************************************************************)
(* ISIMIP._step1_calculate_debiased_annual_cycle_of_upper_bounds on the    *)
(* annual cycles of obs_hist, cm_hist and cm_future.                       *)
(***************************************************************************)
\* np.maximum(lo, np.minimum(hi, x))
Clip(x, lo, hi) == RMax(lo, RMin(hi, x))

\* annual_cycle[unique_days_of_year == day_of_year]: the values of the day
ValuesOfDay(annual_cycle, unique_days_of_year, day) ==
    Gather(annual_cycle, SetToSortedSeq(
        {i \in 1..Len(unique_days_of_year) : unique_days_of_year[i] = day}))

\* the branch for equal days of year: the factor is clipped to [0.1, 10]
ISIMIP_step1_debiased_cycle_of_equal_days(annual_cycle_obs_hist, annual_cycle_cm_hist, annual_cycle_cm_future) ==
    [i \in 1..Len(annual_cycle_cm_future) |->
        RMul(annual_cycle_obs_hist[i],
             Clip(IF annual_cycle_cm_hist[i][1] # 0
                  THEN RDiv(annual_cycle_cm_future[i], annual_cycle_cm_hist[i])
                  ELSE R(1),
                  Rat(1, 10), R(10)))]

\* the branch for unequal days of year, one day of cm_future
ISIMIP_step1_debiased_cycle_of_day(val_cm_future, val_cm_hist, val_obs_hist) ==
    IF Len(val_cm_hist) > 0 /\ Len(val_obs_hist) > 0
    THEN IF val_cm_hist[1][1] # 0
         THEN RDiv(RMul(val_obs_hist[1], val_cm_future), val_cm_hist[1])
         ELSE val_obs_hist[1]
    ELSE val_cm_future

\* ISIMIP._step1_calculate_debiased_annual_cycle_of_upper_bounds
ISIMIP_step1_calculate_debiased_annual_cycle_of_upper_bounds(annual_cycle_obs_hist, unique_days_of_year_obs_hist, annual_cycle_cm_hist, unique_days_of_year_cm_hist, annual_cycle_cm_future, unique_days_of_year_cm_future) ==
    IF unique_days_of_year_cm_hist = unique_days_of_year_cm_future
       /\ unique_days_of_year_obs_hist = unique_days_of_year_cm_future
    THEN ISIMIP_step1_debiased_cycle_of_equal_days(annual_cycle_obs_hist,
             annual_cycle_cm_hist, annual_cycle_cm_future)
    ELSE [index \in 1..Len(unique_days_of_year_cm_future) |->
            ISIMIP_step1_debiased_cycle_of_day(annual_cycle_cm_future[index],
                ValuesOfDay(annual_cycle_cm_hist, unique_days_of_year_cm_hist,
                            unique_days_of_year_cm_future[index]),
                ValuesOfDay(annual_cycle_obs_hist, unique_days_of_year_obs_hist,
                            unique_days_of_year_cm_future[index]))]

\* the days of year of the modelled cycles are 1..MaxDay
MaxDay == 2

\* the values of the cycles: ratios below 0.1, between, and above 10
CycleValues == {0, 1, 20}

\* the annual cycles over the days of year that occur in a series
AnnualCycles(values) ==
    UNION {{[days |-> SetToSortedSeq(D), cycle |-> Reals(v)] :
                v \in [1..Cardinality(D) -> values]} :
           D \in (SUBSET (1..MaxDay)) \ {{}}}

\* the annual cycles are kept in obs, cm_hist and cm_future and their days
\* of year in time_obs, time_cm_hist and time_cm_future
CycleInit ==
    /\ debiaser = "ISIMIP"
    /\ cfg = [ISIMIPConfig(FALSE, <<31, 1>>, NoRange, FALSE) EXCEPT
                 !.scale_by_annual_cycle_of_upper_bounds = TRUE]
    /\ \E o \in AnnualCycles(CycleValues \ {0}), h \in AnnualCycles(CycleValues),
          f \in AnnualCycles(CycleValues) :
          /\ obs = o.cycle /\ time_obs = o.days
          /\ cm_hist = h.cycle /\ time_cm_hist = h.days
          /\ cm_future = f.cycle /\ time_cm_future = f.days
    /\ time_given = [obs |-> TRUE, cm_hist |-> TRUE, cm_future |-> TRUE]
    /\ pc = "cycle"
    /\ warnings = 0
    /\ work = NoWork
    /\ windows = <<>>
    /\ debiased_cm_future = <<>>
    /\ writes = <<>>
    /\ inner_writes = {}
    /\ log = <<>>
    /\ chunk = NoChunk
    /\ stages = <<>>
    /\ result = <<>>
    /\ error = "none"
    /\ np_random = 0

\* debiased_annual_cycle = self._step1_calculate_debiased_annual_cycle_...
ISIMIPStep1CalculateDebiasedAnnualCycle ==
    /\ pc = "cycle"
    /\ result' = ISIMIP_step1_calculate_debiased_annual_cycle_of_upper_bounds(
                    obs, time_obs, cm_hist, time_cm_hist, cm_future, time_cm_future)
    /\ pc' = "cycle_done"
    /\ UNCHANGED <<inputs, times, warnings, work, loop, chunk, stages, error,
                   np_random>>

CycleNext == ISIMIPStep1CalculateDebiasedAnnualCycle

CycleSpec == CycleInit /\ [][CycleNext]_vars

\* the days of year of the three cycles are the same
SameDaysOfYear == time_cm_hist = time_cm_future /\ time_obs = time_cm_future

\* the debiased value at an index of cm_future is the observed value of the
\* day times the clipped ratio of the cm_future and cm_hist values of the day
DebiasedIsObservedTimesClippedRatio(index) ==
    LET val_obs_hist == ValuesOfDay(obs, time_obs, time_cm_future[index])
        val_cm_hist == ValuesOfDay(cm_hist, time_cm_hist, time_cm_future[index])
    IN  (Len(val_obs_hist) > 0 /\ Len(val_cm_hist) > 0 /\ val_cm_hist[1][1] # 0) =>
            /\ result[index] = RMul(val_obs_hist[1],
                   Clip(RDiv(cm_future[index], val_cm_hist[1]), Rat(1, 10), R(10)))
            /\ RLe(RMul(Rat(1, 10), val_obs_hist[1]), result[index])
            /\ RLe(result[index], RMul(R(10), val_obs_hist[1]))

\* C22: the debiased cycle value of every day of year of cm_future that obs
\* and cm_hist have as well is the observed value of the day times
\* clip(cm_future_cycle / cm_hist_cycle, 0.1, 10), also when the three
\* series do not cover the same days of year
C22_DebiasedCycleClipped ==
    pc = "cycle_done" =>
        \A index \in 1..Len(time_cm_future) :
            DebiasedIsObservedTimesClippedRatio(index)

\* the same for series that cover the same days of year
C22_DebiasedCycleClippedForSameDays ==
    (pc = "cycle_done" /\ SameDaysOfYear) =>
        \A index \in 1..Len(time_cm_future) :
            DebiasedIsObservedTimesClippedRatio(index)

\* the factor was clipped for series that cover the same days of year
C22_ClippedForSameDays ==
    /\ pc = "cycle_done" /\ SameDaysOfYear
    /\ \E index \in 1..Len(cm_future) :
        /\ cm_hist[index][1] # 0
        /\ RLt(R(10), RDiv(cm_future[index], cm_hist[index]))


(***************************************************************************)
(* ISIMIP.apply_location from step 1 on, with and without detrending, on   *)
(* series of NYears + 1 years and two running windows over the year.       *)
(***************************************************************************)
DetrendConfigs ==
    {[ISIMIPConfig(TRUE, <<183, 183>>, NoRange, FALSE) EXCEPT
         !.detrending = detrending,
         !.trend_removal_with_significance_test = test] :
        detrending \in BOOLEAN, test \in BOOLEAN}

\* one sample in each half of each year
HalfYearDates ==
    [i \in 1..(2 * (NYears + 1)) |->
        <<FirstYear + ((i - 1) \div 2), IF i % 2 = 1 THEN 3 ELSE 200>>]

\* the series with a in the first halves and b in the second halves
HalfYears(a, b) ==
    [i \in 1..(2 * (NYears + 1)) |->
        R(IF i % 2 = 1 THEN a[(i + 1) \div 2] ELSE b[i \div 2])]

DetrendInit ==
    /\ debiaser = "ISIMIP"
    /\ cfg \in DetrendConfigs
    /\ \E a \in [1..(NYears + 1) -> 1..MaxVal],
          b \in {<<3, 2, 1>>, <<1, 1, 2>>},
          o \in {<<1, 3, 2>>, <<1, 2, 3>>}, h \in {<<2, 2, 3>>, <<3, 2, 1>>} :
          /\ obs = HalfYears(o, h)
          /\ cm_hist = HalfYears(h, o)
          /\ cm_future = HalfYears(a, b)
    /\ time_obs = HalfYearDates
    /\ time_cm_hist = HalfYearDates
    /\ time_cm_future = HalfYearDates
    /\ time_given = [obs |-> TRUE, cm_hist |-> TRUE, cm_future |-> TRUE]
    /\ pc = "step1"
    /\ warnings = 0
    /\ work = NoWork
    /\ windows = <<>>
    /\ debiased_cm_future = <<>>
    /\ writes = <<>>
    /\ inner_writes = {}
    /\ log = <<>>
    /\ chunk = NoChunk
    /\ stages = <<>>
    /\ result = <<>>
    /\ error = "none"
    /\ np_random = 0

DetrendNext ==
    \/ ISIMIPStep1
    \/ ISIMIPStep2
    \/ ISIMIPStep3
    \/ ISIMIPStep4
    \/ ISIMIPStep5
    \/ ISIMIPStep6
    \/ ISIMIPStep7
    \/ ISIMIPStep8

DetrendSpec == DetrendInit /\ [][DetrendNext]_vars

\* x + y and x - y, sample by sample
SeriesAdd(x, y) == [i \in 1..Len(x) |-> RAdd(x[i], y[i])]
SeriesSub(x, y) == [i \in 1..Len(x) |-> RSub(x[i], y[i])]

\* step 3 keeps as the trend what it removed from the cm_future of the chunk
Step3KeepsRemovedTrend ==
    (pc = "step3" /\ pc' = "step4") =>
        /\ chunk'.trend_cm_future = SeriesSub(chunk.cm_future, chunk'.cm_future)
        /\ ~cfg.detrending =>
            /\ chunk'.obs_hist = chunk.obs_hist
            /\ chunk'.cm_hist = chunk.cm_hist
            /\ chunk'.cm_future = chunk.cm_future

\* the stages 4 to 6 hand the trend on as it is
TrendHandedOn ==
    (pc \in {"step4", "step5", "step6"} /\ pc' # "raised") =>
        chunk'.trend_cm_future = chunk.trend_cm_future

\* step 7 adds the trend of the chunk to the output of stage 6
Step7AddsTrendOfChunk ==
    (pc = "step7" /\ pc' = "chunk") =>
        /\ log'[Len(log')].out = SeriesAdd(chunk.cm_future, chunk.trend_cm_future)
        /\ ~cfg.detrending => log'[Len(log')].out = chunk.cm_future

\* C23: stage 7 adds to the stage-6 output of a chunk exactly the trend
\* that stage 3 removed, sample by sample, from the cm_future of that chunk
\* (zeros when the trend is treated as zero), and never another trend;
\* without detrending the stages 3 and 7 leave the series as they are
C23_Step7RestoresTrendOfStep3 ==
    [][Step3KeepsRemovedTrend /\ TrendHandedOn /\ Step7AddsTrendOfChunk]_vars

\* the second chunk is at step 7 with a trend that is not zero and is not
\* the trend of the cm_hist of the chunk
C23_Witness ==
    /\ pc = "step7" /\ cfg.detrending /\ Len(log) = 1
    /\ \E i \in 1..Len(chunk.trend_cm_future) : chunk.trend_cm_future[i] # R(0)
    /\ chunk.trend_cm_future #
            ISIMIP_step3_remove_trend(cfg, Gather(cm_hist, chunk.d.in_cm_hist),
                Gather(year(time_cm_hist), chunk.d.in_cm_hist)).trend


(***************************************************************************)
(* ISIMIP.step5 on its own, with the methods "additive" and "bounded",     *)
(* with and without thresholds, on values in and beyond the bounds.        *)
(***************************************************************************)
Step5Config(method, lower, upper, within) ==
    [ISIMIPConfig(FALSE, <<31, 1>>, NoRange, within) EXCEPT
        !.trend_preservation_method = method,
        !.lower_bound = lower[1], !.lower_threshold = lower[2],
        !.upper_bound = upper[1], !.upper_threshold = upper[2]]

Step5Configs ==
    {Step5Config("additive", <<NegInf, NegInf>>, <<PosInf, PosInf>>, FALSE),
     Step5Config("additive", <<Finite(0), Fin(Rat(1, 2))>>,
                 <<Finite(MaxVal + 1), Fin(Rat(2 * MaxVal + 1, 2))>>, TRUE),
     Step5Config("bounded", <<Finite(0), Fin(Rat(1, 2))>>,
                 <<Finite(MaxVal + 1), Fin(Rat(2 * MaxVal + 1, 2))>>, TRUE),
     Step5Config("bounded", <<Finite(0), NegInf>>,
                 <<Finite(MaxVal + 1), PosInf>>, FALSE),
     Step5Config("bounded", <<Finite(1), NegInf>>, <<Finite(MaxVal), PosInf>>,
                 FALSE)}

\* the series of obs_hist and cm_hist, and those of cm_future
Step5Hist == UNION {[1..n -> 0..(MaxVal + 1)] : n \in 1..2}
Step5Future == [1..1 -> 0..(MaxVal + 1)] \cup {<<0, MaxVal + 1>>, <<2, 3>>}

Step5Init ==
    /\ debiaser = "ISIMIP"
    /\ cfg \in Step5Configs
    /\ \E o \in Step5Hist, h \in Step5Hist, f \in Step5Future :
          /\ obs = Reals(o)
          /\ cm_hist = Reals(h)
          /\ cm_future = Reals(f)
          /\ time_obs = DatesInYears([i \in 1..Len(o) |-> FirstYear])
          /\ time_cm_hist = DatesInYears([i \in 1..Len(h) |-> FirstYear])
          /\ time_cm_future = DatesInYears([i \in 1..Len(f) |-> FirstYear])
          /\ chunk = [NoChunk EXCEPT
                         !.d = [target |-> All(f), in_obs |-> All(o),
                                in_cm_hist |-> All(h), in_cm_future |-> All(f),
                                sel |-> All(f)],
                         !.obs_hist = Reals(o), !.cm_hist = Reals(h),
                         !.cm_future = Reals(f),
                         !.base = <<"own", "own", "own">>]
    /\ time_given = [obs |-> TRUE, cm_hist |-> TRUE, cm_future |-> TRUE]
    /\ pc = "step5"
    /\ warnings = 0
    /\ work = NoWork
    /\ windows = <<>>
    /\ debiased_cm_future = <<>>
    /\ writes = <<>>
    /\ inner_writes = {}
    /\ log = <<>>
    /\ stages = <<>>
    /\ result = <<>>
    /\ error = "none"
    /\ np_random = 0

Step5Next == ISIMIPStep5

Step5Spec == Step5Init /\ [][Step5Next]_vars

\* step 5 has returned obs_future
Step5Returned == stages = <<"step5">> /\ pc = "step6"

\* v lies in [lower_bound, upper_bound]
WithinBounds(v) ==
    /\ v # NaN
    /\ FloatLe(Ext(cfg.lower_bound), v)
    /\ FloatLe(v, Ext(cfg.upper_bound))

AllWithinBounds(x) == \A i \in 1..Len(x) : WithinBounds(x[i])

\* C24: with trend_preservation_method = "bounded" every pseudo future
\* observation that step 5 returns lies in [lower_bound, upper_bound],
\* whichever of the four branches its element took
C24_BoundedWithinBounds ==
    (Step5Returned /\ cfg.trend_preservation_method = "bounded") =>
        AllWithinBounds(chunk.obs_future)

\* the same for series whose values all lie in [lower_bound, upper_bound]
C24_BoundedWithinBoundsForValuesWithinBounds ==
    (/\ Step5Returned /\ cfg.trend_preservation_method = "bounded"
     /\ AllWithinBounds(obs) /\ AllWithinBounds(cm_hist)
     /\ AllWithinBounds(cm_future)) =>
        AllWithinBounds(chunk.obs_future)

\* an obs_hist beyond the upper bound with cm_hist and cm_future at the bound:
\* the branch of the negative bias divides 0 by 0 and step 5 returns NaN
C24_NaNReturned ==
    /\ Step5Returned /\ cfg.trend_preservation_method = "bounded"
    /\ obs = <<R(MaxVal + 1)>> /\ cm_hist = <<R(MaxVal)>>
    /\ cm_future = <<R(MaxVal)>>
    /\ cfg.upper_bound = Finite(MaxVal)
    /\ chunk.obs_future = <<NaN>>

\* the value v is at or beyond a threshold
AtOrBeyondThreshold(v) ==
    BeyondLowerThreshold(cfg, v) \/ BeyondUpperThreshold(cfg, v)

NoneBetweenThresholds(x) == \A i \in 1..Len(x) : AtOrBeyondThreshold(x[i])

\* C25: with trend_transfer_only_for_values_within_threshold step 5 returns
\* a series as long as obs_hist whose elements at or beyond a threshold in
\* obs_hist are those of obs_hist, and obs_hist itself if obs_hist, cm_hist
\* or cm_future has no value strictly between the thresholds
C25_TransferOnlyBetweenThresholds ==
    (Step5Returned /\ cfg.trend_transfer_only_for_values_within_threshold) =>
        /\ Len(chunk.obs_future) = Len(obs)
        /\ \A i \in 1..Len(obs) :
                AtOrBeyondThreshold(obs[i]) => chunk.obs_future[i] = obs[i]
        /\ (NoneBetweenThresholds(obs) \/ NoneBetweenThresholds(cm_hist)
                \/ NoneBetweenThresholds(cm_future)) =>
                chunk.obs_future = obs

\* a value between the thresholds was changed next to one beyond a threshold
C25_Witness ==
    /\ Step5Returned /\ cfg.trend_transfer_only_for_values_within_threshold
    /\ \E i, j \in 1..Len(obs) :
        /\ AtOrBeyondThreshold(obs[i])
        /\ ~AtOrBeyondThreshold(obs[j]) /\ chunk.obs_future[j] # obs[j]

\* everything was kept for a cm_hist without a value between the thresholds
C25_AllKept ==
    /\ Step5Returned /\ cfg.trend_transfer_only_for_values_within_threshold
    /\ ~NoneBetweenThresholds(obs) /\ NoneBetweenThresholds(cm_hist)
    /\ ~NoneBetweenThresholds(cm_future)


(***************************************************************************)
(* ISIMIP.apply_location with impute_missing_values on series with missing *)
(* and infinite values, in two running windows over the year.              *)
(***************************************************************************)
ImputeConfigs ==
    {[ISIMIPConfig(TRUE, <<183, 183>>, NoRange, FALSE) EXCEPT
         !.impute_missing_values = TRUE]}

\* the series with a in the first halves of the years and b in the second
HalfYearValues(a, b) ==
    [i \in 1..(2 * (NYears + 1)) |->
        IF i % 2 = 1 THEN a[(i + 1) \div 2] ELSE b[i \div 2]]

\* the values of one half of the years: complete, with one or two invalid
\* values, and without a valid value
ImputeHalves ==
    {<<R(1), R(2), R(3)>>, <<R(3), NaN, R(1)>>, <<NaN, R(2), NaN>>,
     <<<<1, 0>>, R(1), NaN>>, <<NaN, NaN, NaN>>}

ImputeInit ==
    /\ debiaser = "ISIMIP"
    /\ cfg \in ImputeConfigs
    /\ \E a \in ImputeHalves, b \in ImputeHalves,
          oa \in {<<R(1), R(3), R(2)>>, <<NaN, R(2), R(2)>>},
          ob \in {<<R(2), R(2), R(3)>>, <<NaN, <<-1, 0>>, NaN>>} :
          /\ obs = HalfYearValues(oa, ob)
          /\ cm_hist = HalfYearValues(<<R(2), NaN, R(1)>>, <<R(1), R(1), R(2)>>)
          /\ cm_future = HalfYearValues(a, b)
    /\ time_obs = HalfYearDates
    /\ time_cm_hist = HalfYearDates
    /\ time_cm_future = HalfYearDates
    /\ time_given = [obs |-> TRUE, cm_hist |-> TRUE, cm_future |-> TRUE]
    /\ pc = "step1"
    /\ warnings = 0
    /\ work = NoWork
    /\ windows = <<>>
    /\ debiased_cm_future = <<>>
    /\ writes = <<>>
    /\ inner_writes = {}
    /\ log = <<>>
    /\ chunk = NoChunk
    /\ stages = <<>>
    /\ result = <<>>
    /\ error = "none"
    /\ np_random \in 0..(GeneratorPeriod - 1)

ImputeNext ==
    \/ ISIMIPStep1
    \/ ISIMIPStep2
    \/ ISIMIPStep3
    \/ ISIMIPStep4
    \/ ISIMIPStep5
    \/ ISIMIPStep6
    \/ ISIMIPStep7
    \/ ISIMIPStep8

ImputeSpec == ImputeInit /\ [][ImputeNext]_vars

\* the valid values of x
ValidValues(x) == {x[i] : i \in {j \in 1..Len(x) : IsFinite(x[j])}}
ValidPositions(x) == {j \in 1..Len(x) : IsFinite(x[j])}

\* y is x with every invalid value replaced by a value between the least
\* and the greatest valid value of x, which is the valid value if x has one
ImputedFrom(x, y) ==
    /\ Len(y) = Len(x)
    /\ \A i \in 1..Len(x) :
        IF IsFinite(x[i]) THEN y[i] = x[i]
        ELSE /\ IsFinite(y[i])
             /\ \E lo, hi \in ValidValues(x) : RLe(lo, y[i]) /\ RLe(y[i], hi)
             /\ Cardinality(ValidPositions(x)) = 1 => y[i] \in ValidValues(x)

\* the series of the chunk that step 2 is about to enter
NextChunkOf(x, which) == Gather(x, ISIMIP_chunk(Head(windows))[which])

\* step 2 on the chunk at the head of the windows
Step2Imputes ==
    (pc = "chunk" /\ windows # <<>> /\ cfg.impute_missing_values) =>
        IF \/ ValidPositions(NextChunkOf(work.obs_hist, "in_obs")) = {}
           \/ ValidPositions(NextChunkOf(work.cm_hist, "in_cm_hist")) = {}
           \/ ValidPositions(NextChunkOf(work.cm_future, "in_cm_future")) = {}
        THEN pc' = "raised" /\ error' = "imputation" /\ result' = <<>>
        ELSE /\ pc' = "step3"
             /\ ImputedFrom(NextChunkOf(work.obs_hist, "in_obs"), chunk'.obs_hist)
             /\ ImputedFrom(NextChunkOf(work.cm_hist, "in_cm_hist"), chunk'.cm_hist)
             /\ ImputedFrom(NextChunkOf(work.cm_future, "in_cm_future"),
                            chunk'.cm_future)

\* C26: with impute_missing_values a series of a chunk without a finite
\* value raises and ends apply_location without output, also after chunks
\* that succeeded; otherwise step 2 replaces every NaN and infinite value by
\* a value between the least and the greatest finite value of the series of
\* the chunk, which is the finite value if there is exactly one, and keeps
\* every finite value
C26_ImputedOrRaised ==
    [][Step2Imputes /\ (pc = "raised" => pc' = "raised" /\ result' = <<>>)]_vars

\* a chunk without a finite value raised after a chunk with imputed values
C26_Witness ==
    /\ pc = "raised" /\ error = "imputation" /\ Len(log) = 1 /\ result = <<>>
    /\ \E i \in Range(log[1].d.in_cm_future) : ~IsFinite(cm_future[i])

\* step 2 put the one finite value of a series in the place of the others
C26_OneFiniteValue ==
    /\ pc = "step3"
    /\ Cardinality(ValidPositions(Gather(cm_future, chunk.d.in_cm_future))) = 1
    /\ Len(chunk.cm_future) = NYears + 1


(***************************************************************************)
(* CDFt.apply_location with SSR on series with zeros, with and without the *)
(* running window over the years.                                          *)
(***************************************************************************)
SSRConfigs ==
    {[CDFtConfig(ds, FALSE, rw, <<3, 1>>) EXCEPT !.SSR = TRUE] :
        ds \in {"additive", "no_shift"}, rw \in BOOLEAN}

\* series of values from 0 on, one sample a year
SSRHist == [1..2 -> 0..2]
SSRFuture == UNION {[1..n -> 0..2] : n \in 2..MaxLen}

SSRInit ==
    /\ debiaser = "CDFt"
    /\ cfg \in SSRConfigs
    /\ \E o \in SSRHist, h \in SSRHist, f \in SSRFuture :
        /\ obs = Reals(o)
        /\ cm_hist = Reals(h)
        /\ cm_future = Reals(f)
        /\ time_obs = ShortDates(Len(o))
        /\ time_cm_hist = ShortDates(Len(h))
        /\ time_cm_future = ShortDates(Len(f))
    /\ time_given = [obs |-> TRUE, cm_hist |-> TRUE, cm_future |-> TRUE]
    /\ pc = "iterate"
    /\ warnings = 0
    /\ work = NoWork
    /\ windows = <<>>
    /\ debiased_cm_future = <<>>
    /\ writes = <<>>
    /\ inner_writes = {}
    /\ log = <<>>
    /\ chunk = NoChunk
    /\ stages = <<>>
    /\ result = <<>>
    /\ error = "none"
    /\ np_random \in {0, 1}

SSRNext ==
    \/ CDFtBeginWindows
    \/ CDFtWindow
    \/ CDFtReturn
    \/ CDFtApplyOnWindow

SSRSpec == SSRInit /\ [][SSRNext]_vars

\* the least strictly positive value of obs, cm_hist and the cm_future f of
\* a chunk
ChunkThreshold(f) ==
    LeastOf(PositiveValues(obs) \cup PositiveValues(cm_hist)
            \cup PositiveValues(f))

\* every element of the output out of the chunk with the cm_future f is 0
\* or at least the threshold of the chunk
ZeroOrAtLeastThreshold(out, f) ==
    \A i \in 1..Len(out) : out[i] = R(0) \/ RLe(ChunkThreshold(f), out[i])

\* the randomization replaces the zeros of x, and only them, by values in
\* [0, threshold)
ZerosRandomized(x, threshold) ==
    \A i \in 1..Len(x) :
        LET y == CDFt_randomize_zero_values_between_zero_and_threshold(
                     x, threshold, np_random)
        IN  IF x[i] = R(0) THEN RLe(R(0), y[i]) /\ RLt(y[i], threshold)
            ELSE y[i] = x[i]

\* the outputs of the chunks so far, and the randomization of their inputs
SSROutputs ==
    /\ \A k \in 1..Len(log) :
        ZeroOrAtLeastThreshold(log[k].out,
                               Gather(cm_future, log[k].d.in_cm_future))
    /\ (pc = "done" /\ ~cfg.running_window_mode) =>
            ZeroOrAtLeastThreshold(result, cm_future)
    /\ ZerosRandomized(obs, ChunkThreshold(cm_future))
    /\ ZerosRandomized(cm_hist, ChunkThreshold(cm_future))
    /\ ZerosRandomized(cm_future, ChunkThreshold(cm_future))

\* C28: with SSR the threshold of a chunk is the least strictly positive
\* value of obs, cm_hist and cm_future, the zeros of the three series, and
\* only they, are replaced by draws in [0, threshold), and the mapped values
\* below the threshold are set to zero: every element of the output of the
\* chunk is 0 or at least the threshold
C28_ZeroOrAtLeastThreshold ==
    (cfg.SSR /\ PositiveValues(obs) \cup PositiveValues(cm_hist) # {}) =>
        /\ pc # "raised"
        /\ SSROutputs

\* the same for chunks whose three series each have a positive value; a
\* chunk with a series without one raises
C28_ZeroOrAtLeastThresholdOrRaised ==
    (cfg.SSR /\ PositiveValues(obs) \cup PositiveValues(cm_hist) # {}) =>
        /\ pc = "raised" => error = "zero_size_minimum"
        /\ SSROutputs

\* a chunk with zeros in its three series was mapped to zeros and to values
\* from the threshold on
C28_Mapped ==
    /\ cfg.SSR /\ pc = "done" /\ ~cfg.running_window_mode
    /\ \E i \in 1..Len(obs) : obs[i] = R(0)
    /\ \E i \in 1..Len(cm_hist) : cm_hist[i] = R(0)
    /\ \E i \in 1..Len(cm_future) : cm_future[i] = R(0)
    /\ \E i, j \in 1..Len(result) : result[i] = R(0) /\ result[j] # R(0)

\* a chunk whose obs has no positive value has raised
C28_Raised ==
    /\ cfg.SSR /\ pc = "raised" /\ error = "zero_size_minimum"
    /\ PositiveValues(obs) = {}
    /\ PositiveValues(cm_hist) # {} /\ PositiveValues(cm_future) # {}


(***************************************************************************)
(* ISIMIP.apply_location from step 1 on with the parametric and the        *)
(* nonparametric quantile mapping of step 6, with and without the test of  *)
(* the goodness of fit, on two running windows over the year.              *)
(***************************************************************************)
KSConfigs ==
    {[ISIMIPConfig(TRUE, <<183, 183>>, NoRange, FALSE) EXCEPT
         !.nonparametric_qm = nonparametric_qm,
         !.ks_test_for_goodness_of_cdf_fit = ks_test] :
        nonparametric_qm \in BOOLEAN, ks_test \in BOOLEAN}

KSInit ==
    /\ debiaser = "ISIMIP"
    /\ cfg \in KSConfigs
    /\ \E a \in [1..(NYears + 1) -> 1..MaxVal],
          b \in {<<3, 2, 1>>, <<1, 1, 2>>},
          o \in {<<1, 3, 2>>, <<1, 3, 3>>}, h \in {<<2, 2, 3>>, <<3, 2, 1>>} :
          /\ obs = HalfYears(o, h)
          /\ cm_hist = HalfYears(h, o)
          /\ cm_future = HalfYears(a, b)
    /\ time_obs = HalfYearDates
    /\ time_cm_hist = HalfYearDates
    /\ time_cm_future = HalfYearDates
    /\ time_given = [obs |-> TRUE, cm_hist |-> TRUE, cm_future |-> TRUE]
    /\ pc = "step1"
    /\ warnings = 0
    /\ work = NoWork
    /\ windows = <<>>
    /\ debiased_cm_future = <<>>
    /\ writes = <<>>
    /\ inner_writes = {}
    /\ log = <<>>
    /\ chunk = NoChunk
    /\ stages = <<>>
    /\ result = <<>>
    /\ error = "none"
    /\ np_random = 0

KSNext ==
    \/ ISIMIPStep1
    \/ ISIMIPStep2
    \/ ISIMIPStep3
    \/ ISIMIPStep4
    \/ ISIMIPStep5
    \/ ISIMIPStep6
    \/ ISIMIPStep7
    \/ ISIMIPStep8

KSSpec == KSInit /\ [][KSNext]_vars

\* the entries of a series of the chunk between the thresholds
BetweenThresholdsOfChunk(x) ==
    ISIMIP_get_values_between_thresholds(cfg, Sort(x))

\* the fit of the distribution to the data fails the Kolmogorov-Smirnov
\* acceptance bound
FitFails(data) ==
    LET fit == ISIMIP_step6_distribution_fit(cfg, data)
    IN  fit.ok /\ ~ISIMIP_step6_fit_good_enough(data, fit.val)

EitherFitFails ==
    \/ FitFails(BetweenThresholdsOfChunk(chunk.cm_future))
    \/ FitFails(BetweenThresholdsOfChunk(chunk.obs_future))

\* the nonparametric quantile mapping of cm_future of the chunk on its
\* pseudo future observations
NonparametricMapping ==
    ISIMIP_step6([cfg EXCEPT !.nonparametric_qm = TRUE], chunk.obs_hist,
                 chunk.obs_future, chunk.cm_hist, chunk.cm_future).val

\* the parametric quantile mapping of cm_future of the chunk: the cdf under
\* the fit to cm_future, inverted under the fit to the pseudo future
\* observations
ParametricMapping ==
    ISIMIP_step6_map_parametrically(chunk.cm_future,
        ISIMIP_step6_distribution_fit(cfg, Sort(chunk.cm_future)).val,
        ISIMIP_step6_distribution_fit(cfg, Sort(chunk.obs_future)).val).val

\* the step of step 6 with the fallback: one warning, the nonparametric
\* mapping, and the window goes on to step 7
Step6FallsBack ==
    /\ warnings' = warnings + 1
    /\ pc' = "step7"
    /\ chunk'.cm_future = NonparametricMapping

\* the step of step 6 without the fallback: no warning, the parametric
\* mapping
Step6MapsParametrically ==
    /\ warnings' = warnings
    /\ pc' = "step7"
    /\ chunk'.cm_future = ParametricMapping

\* C29: in step 6 with nonparametric_qm off, if the Kolmogorov-Smirnov test
\* is on and the fit to cm_future or the fit to the pseudo future
\* observations fails the acceptance bound, a warning is emitted, the
\* nonparametric quantile mapping is returned and the run goes on (nothing
\* is raised up to the return); with the test off or with both fits
\* passing, there is no warning and the parametric mapping is returned
C29_FallbackOnlyOnFailedFit ==
    [][/\ (pc = "step6" /\ ~cfg.nonparametric_qm) =>
            IF cfg.ks_test_for_goodness_of_cdf_fit /\ EitherFitFails
            THEN Step6FallsBack
            ELSE Step6MapsParametrically
       /\ pc' # "raised"]_vars

\* apply_location has returned after a fallback in one of its windows
C29_Witness ==
    /\ pc = "done" /\ ~cfg.nonparametric_qm /\ warnings > 0
    /\ Len(result) = Len(cm_future)

\* both fits have passed the test and the parametric mapping is returned
C29_BothFitsPass ==
    /\ pc = "done" /\ ~cfg.nonparametric_qm
    /\ cfg.ks_test_for_goodness_of_cdf_fit /\ warnings = 0


(***************************************************************************)
(* CDFt with apply_by_month and months without samples                     *)
(***************************************************************************)
\* the months of the year that have a sample at the dates time
MonthsOf(time) == {month(time)[i] : i \in 1..Len(time)}

\* the dates of cm_future handed to _apply_on_window in the current step:
\* all of them without running window, those of the years of the window
\* with it
TimeOfCurrentWindow ==
    IF cfg.running_window_mode
    THEN Gather(time_cm_future,
                CDFt_window(year(time_cm_future), Head(windows)).in_cm_future)
    ELSE time_cm_future

\* some calendar month has no sample in obs, in cm_hist or in the cm_future
\* of the current window
SomeMonthWithoutSample ==
    \E i_month \in 1..MonthsInYear :
        \/ i_month \notin MonthsOf(time_obs)
        \/ i_month \notin MonthsOf(time_cm_hist)
        \/ i_month \notin MonthsOf(TimeOfCurrentWindow)

\* CDFt with apply_by_month is about to call _apply_on_window
CDFtAppliesByMonth ==
    /\ debiaser = "CDFt" /\ cfg.apply_by_month
    /\ \/ pc = "iterate" /\ ~cfg.running_window_mode
       \/ pc = "window" /\ windows # <<>>

\* C30: CDFt with apply_by_month runs the mapping for each of the months 1
\* to 12 whether or not the month has samples: when a month has no sample
\* in obs, in cm_hist or in the cm_future of the current window,
\* apply_location ends with the error of the empty input and without
\* output, and when every month has samples in the three series nothing is
\* raised
C30_EmptyMonthRaises ==
    [][CDFtAppliesByMonth =>
          IF SomeMonthWithoutSample
          THEN pc' = "raised" /\ error' = "empty_sample" /\ result' = <<>>
          ELSE pc' # "raised"]_vars

\* apply_location has ended with the error of the empty input for a
\* cm_future without a sample in some month, obs and cm_hist having samples
\* in every month
C30_Witness ==
    /\ debiaser = "CDFt" /\ cfg.apply_by_month
    /\ pc = "raised" /\ error = "empty_sample" /\ result = <<>>
    /\ MonthsOf(time_obs) = 1..MonthsInYear
    /\ MonthsOf(time_cm_hist) = 1..MonthsInYear
    /\ MonthsOf(time_cm_future) # 1..MonthsInYear

\* the same for an obs without a sample in some month
C30_EmptyMonthOfObs ==
    /\ debiaser = "CDFt" /\ cfg.apply_by_month
    /\ pc = "raised" /\ error = "empty_sample"
    /\ MonthsOf(time_obs) # 1..MonthsInYear
    /\ MonthsOf(time_cm_hist) = 1..MonthsInYear
    /\ MonthsOf(time_cm_future) = 1..MonthsInYear

====
